---- MODULE Spec2Model ----
(***************************************************************************)
(* Model of the identity-aware gateway demo: the Authorization Server      *)
(* (auth/src/index.js), the gateway (gateway/src/index.js, crypto.js),     *)
(* the Resource Server (server/src/index.js) and the Authorizer's          *)
(* /evaluate (ADP/src/index.js).                                            *)
(*                                                                         *)
(* Every handler is cut at its awaits: the code between two awaits runs    *)
(* to completion on Node's single thread and is one action.                *)
(*                                                                         *)
(* Strings: a space-separated scope string is the sequence of its words    *)
(* ("a b" is <<"a","b">>, "" is <<>>); an absent string parameter is "".   *)
(* Random values (codes, sids, verifiers) are fresh counters.  SHA-256     *)
(* and HMAC-SHA256 are symbolic and collision free.                        *)
(***************************************************************************)
EXTENDS Integers, Sequences, FiniteSets, TLC

\* ------------------------------------------------------------------
\* Bounds of the model
\* ------------------------------------------------------------------
MaxCodes == 2
MaxTok == 2
MaxTicks == 3
MaxSessions == 2
MaxCb == 2
MaxMcp == 1

\* ------------------------------------------------------------------
\* Program constants
\* ------------------------------------------------------------------
TOKEN_LIFETIME_SEC == 900
EXPIRES_IN == 900
TickMs == 1000 * 1000

ISSUER == "http://localhost:9092"
DEFAULT_AUDIENCE == "mcp-demo"
GW_CALLBACK == "http://localhost:9400/oauth/callback"
AGENT_CALLBACK == "http://localhost:9200/callback"

OBLIGATION_TTL == 900
DEFAULT_EXPIRES_IN == 900
SECRET == "dev-secret"

VARIABLES
    now,       \* Date.now(), milliseconds
    EXPECTED_AUD, \* RS: process.env.EXPECTED_AUD || "mcp-demo", fixed at boot
    CLIENTS,   \* AS: Map client_id -> the client's redirect_uris
    delegations,  \* ADP: the rows of table delegations
    sqlite_sequence, \* ADP: the largest id ever given to a row (id INTEGER PRIMARY KEY AUTOINCREMENT)
    ORDERS,    \* RS: order id -> order
    SESSION,   \* gateway: the sids that are keys of the SESSION map
    sess,      \* gateway: sid -> session object (outlives its removal from the map)
    nextSid,   \* gateway: the next fresh sid
    start,     \* gateway: the POST /session/start handler in flight
    cb,        \* gateway: GET /oauth/callback handlers in flight
    mcp,       \* gateway: /mcp/* handlers in flight
    AUTHZ,     \* AS: code -> AuthorizationRequest (NoEntry when absent)
    nextCode,  \* AS: the next fresh code
    tok,       \* AS: POST /token handlers suspended at the await of sign()
    mintCount, \* history: number of tokens minted per code
    ttlExpired, \* history: per sid, the /mcp/pay answers session_obligation_ttl_expired
    resp       \* the HTTP response produced by the last step (NoResp when none)

nowSec == now \div 1000

\* ------------------------------------------------------------------
\* Values
\* ------------------------------------------------------------------
Codes == 1..MaxCodes
NoCode == 0

Sha256(v) == <<"S256", v>>
NoChallenge == <<>>

\* the gateway's signed state envelope "<p>.<sig>": p is base64url(JSON(payload)),
\* sig is base64url(HMAC-SHA256(secret, p)); either part may be empty or garbage
NoPayload == [enc |-> "empty", sid |-> 0, aud |-> "", scope |-> <<>>]
NoSig == [kind |-> "empty", key |-> "", msg |-> NoPayload]
NoState == [p |-> NoPayload, sig |-> NoSig]

NoEntry ==
    [present |-> FALSE, client_id |-> "", redirect_uri |-> "", scope |-> <<>>,
     state |-> NoState, code_challenge |-> NoChallenge,
     code_challenge_method |-> "", resource |-> ""]

NoToken == [iss |-> "", sub |-> "", scope |-> <<>>, aud |-> "", iat |-> 0, exp |-> 0]

NoBody == [grant_type |-> "", code |-> NoCode, redirect_uri |-> "",
           client_id |-> "", code_verifier |-> 0, resource |-> <<>>]

IdleTok == [pc |-> "idle", b |-> NoBody, entry |-> NoEntry, accessToken |-> NoToken,
            replyTo |-> 0, replay |-> FALSE]

\* a body is the data it is built from: plain strings and bearer tokens
EmptyBody == [strs |-> {}, toks |-> {}]

\* no response was produced by the last step
NoResp == [svc |-> "", ep |-> "", status |-> 0, error |-> "", body |-> EmptyBody]

\* In-memory demo client registry at boot
DemoClients ==
    "demo-client" :> {AGENT_CALLBACK, "http://localhost:9300/callback", GW_CALLBACK}

\* ------------------------------------------------------------------
\* AS: POST /register
\* ------------------------------------------------------------------
\* the dynamic registrations the AS accepts in the model
MaxClients == 1

\* client_id = "client-" + 8 random bytes in hex: a fresh id at every registration
FreshClientId == <<"client-01", "client-02", "client-03">>[Cardinality(DOMAIN CLIENTS)]

\* a body is [isArray, redirect_uris]: redirect_uris is the set of the array's members
Register(body) ==
    /\ Cardinality(DOMAIN CLIENTS) <= MaxClients
    /\ IF ~body.isArray \/ body.redirect_uris = {}
       THEN /\ resp' = [svc |-> "as", ep |-> "register", status |-> 400,
                        error |-> "invalid_client_metadata", body |-> EmptyBody,
                        code |-> NoCode]
            /\ UNCHANGED CLIENTS
       ELSE /\ CLIENTS' = CLIENTS @@ (FreshClientId :> body.redirect_uris)
            /\ resp' = [svc |-> "as", ep |-> "register", status |-> 201, error |-> "",
                        body |-> [strs |-> {FreshClientId} \cup body.redirect_uris,
                                  toks |-> {}],
                        code |-> NoCode]
    /\ UNCHANGED <<now, EXPECTED_AUD, delegations, sqlite_sequence, ORDERS, SESSION, sess, nextSid,
                   start, cb, mcp, AUTHZ, nextCode, tok, mintCount, ttlExpired>>

\* a query/body parameter arrives as the sequence of its occurrences:
\* <<>> absent (or empty), <<v>> a string, longer: an array
pickResource(input) == IF input = <<>> \/ input[1] = "" THEN "" ELSE input[1]

\* ------------------------------------------------------------------
\* AS: GET /authorize
\* ------------------------------------------------------------------
AuthorizeError_NoRedirectCheck(q) ==
    IF q.response_type # "code" THEN "unsupported response_type"
    ELSE IF q.client_id \notin DOMAIN CLIENTS THEN "unknown client_id"
    ELSE IF q.code_challenge_method # "S256" \/ q.code_challenge = NoChallenge
         THEN "PKCE S256 required"
    ELSE ""
AuthorizeError(q) ==
    IF q.response_type # "code" THEN "unsupported response_type"
    ELSE IF q.client_id \notin DOMAIN CLIENTS THEN "unknown client_id"
    ELSE IF q.redirect_uri \notin CLIENTS[q.client_id] THEN "invalid redirect_uri"
    ELSE IF q.code_challenge_method # "S256" \/ q.code_challenge = NoChallenge
         THEN "PKCE S256 required"
    ELSE ""

AuthzEntry(q) ==
    [present |-> TRUE, client_id |-> q.client_id, redirect_uri |-> q.redirect_uri,
     scope |-> q.scope, state |-> q.state, code_challenge |-> q.code_challenge,
     code_challenge_method |-> q.code_challenge_method,
     resource |-> pickResource(q.resource)]

Authorize(q) ==
    /\ nextCode <= MaxCodes
    /\ LET err == AuthorizeError(q) IN
       IF err # ""
       THEN /\ resp' = [svc |-> "as", ep |-> "authorize", status |-> 400, error |-> err,
                        body |-> EmptyBody, code |-> NoCode]
            /\ UNCHANGED <<AUTHZ, nextCode>>
       ELSE /\ AUTHZ' = [AUTHZ EXCEPT ![nextCode] = AuthzEntry(q)]
            /\ nextCode' = nextCode + 1
            /\ resp' = [svc |-> "as", ep |-> "authorize", status |-> 302, error |-> "",
                        body |-> EmptyBody, code |-> nextCode]

\* ------------------------------------------------------------------
\* AS: POST /token
\* ------------------------------------------------------------------
AuthzGet(code) == IF code \in DOMAIN AUTHZ THEN AUTHZ[code] ELSE NoEntry

TokenError_NoPkce(b) ==
    LET entry == AuthzGet(b.code) IN
    IF b.grant_type # "authorization_code" THEN "unsupported_grant_type"
    ELSE IF ~entry.present THEN "invalid_grant"
    ELSE IF entry.client_id # b.client_id THEN "invalid_client"
    ELSE IF entry.redirect_uri # b.redirect_uri THEN "invalid_request"
    ELSE ""
TokenError(b) ==
    LET entry == AuthzGet(b.code) IN
    IF b.grant_type # "authorization_code" THEN "unsupported_grant_type"
    ELSE IF ~entry.present THEN "invalid_grant"
    ELSE IF entry.client_id # b.client_id THEN "invalid_client"
    ELSE IF entry.redirect_uri # b.redirect_uri THEN "invalid_request"
    ELSE IF Sha256(b.code_verifier) # entry.code_challenge THEN "invalid_grant"
    ELSE ""

\* AUTHZ.delete(code), before the handler's only await
AuthzDelete_Skipped(A, code) == A
AuthzDelete(A, code) == [A EXCEPT ![code] = NoEntry]

\* aud = resourceFromTokenReq || entry.resource || DEFAULT_AUDIENCE
ResolveAud(resourceFromTokenReq, entryResource) ==
    IF resourceFromTokenReq # "" THEN resourceFromTokenReq
    ELSE IF entryResource # "" THEN entryResource
    ELSE DEFAULT_AUDIENCE

\* new SignJWT({scope, aud}).setIssuer().setSubject().setIssuedAt().setExpirationTime("15m")
MintJWT(entry, aud) ==
    [iss |-> ISSUER, sub |-> "user-123", scope |-> entry.scope, aud |-> aud,
     iat |-> nowSec, exp |-> nowSec + TOKEN_LIFETIME_SEC]

\* replay (history): a token had already been issued for the code when the request came
TokResp(status, error, accessToken, b, replay) ==
    [svc |-> "as", ep |-> "token", status |-> status, error |-> error,
     error_description |-> IF error = "invalid_grant" /\ AuthzGet(b.code).present
                           THEN "bad pkce" ELSE "",
     body |-> [strs |-> {error}, toks |-> IF accessToken = NoToken THEN {} ELSE {accessToken}],
     access_token |-> accessToken, grant_type |-> b.grant_type, code |-> b.code,
     replay |-> replay]

FreeTok == CHOOSE k \in 1..MaxTok : tok[k].pc = "idle" /\ \A j \in 1..(k-1) : tok[j].pc # "idle"

\* the handler up to the await of sign(); a request that fails a check is answered at once
TokenPostAS(b, replyTo) ==
    LET err == TokenError(b)
        entry == AuthzGet(b.code)
        replay == b.code \in Codes /\ mintCount[b.code] > 0
    IN
    IF err # ""
    THEN /\ resp' = TokResp(400, err, NoToken, b, replay)
         /\ UNCHANGED <<AUTHZ, tok>>
    ELSE /\ \E k \in 1..MaxTok : tok[k].pc = "idle"
         /\ AUTHZ' = AuthzDelete(AUTHZ, b.code)
         /\ tok' = [tok EXCEPT ![FreeTok] =
                       [pc |-> "signing", b |-> b, entry |-> entry,
                        accessToken |-> MintJWT(entry, ResolveAud(pickResource(b.resource), entry.resource)),
                        replyTo |-> replyTo, replay |-> replay]]
         /\ resp' = NoResp

\* ------------------------------------------------------------------
\* gateway/src/crypto.js
\* ------------------------------------------------------------------
Hmac(key, p) == [kind |-> "mac", key |-> key, msg |-> p]
ShortSig == [kind |-> "short", key |-> "", msg |-> NoPayload]

\* payload {sid, iat, aud, scope, n, ctx}; only sid, aud and scope are ever read back
b64urlJson(payloadObj) ==
    [enc |-> "json", sid |-> payloadObj.sid, aud |-> payloadObj.aud, scope |-> payloadObj.scope]

signState(payloadObj) ==
    LET p == b64urlJson(payloadObj) IN [p |-> p, sig |-> Hmac(SECRET, p)]

\* err "throws": crypto.timingSafeEqual raises RangeError on buffers of different length
verifyState_NoSignatureCheck(compact) ==
    IF compact.p.enc = "empty" \/ compact.sig.kind = "empty"
    THEN [ok |-> FALSE, err |-> "malformed_state", json |-> NoPayload]
    ELSE IF compact.p.enc # "json"
    THEN [ok |-> FALSE, err |-> "bad_payload", json |-> NoPayload]
    ELSE [ok |-> TRUE, err |-> "", json |-> compact.p]
verifyState(compact) ==
    IF compact.p.enc = "empty" \/ compact.sig.kind = "empty"
    THEN [ok |-> FALSE, err |-> "malformed_state", json |-> NoPayload]
    ELSE IF compact.sig.kind = "short"
    THEN [ok |-> FALSE, err |-> "throws", json |-> NoPayload]
    ELSE IF compact.sig # Hmac(SECRET, compact.p)
    THEN [ok |-> FALSE, err |-> "bad_signature", json |-> NoPayload]
    ELSE IF compact.p.enc # "json"
    THEN [ok |-> FALSE, err |-> "bad_payload", json |-> NoPayload]
    ELSE [ok |-> TRUE, err |-> "", json |-> compact.p]

\* ------------------------------------------------------------------
\* ADP: POST /evaluate
\* ------------------------------------------------------------------
NoRow == [present |-> FALSE, scopes |-> <<>>, not_after |-> 0,
          has_max |-> FALSE, max_amount_cents |-> 0,
          has_merchants |-> FALSE, merchants |-> <<>>]

NoObligations == [bind_order |-> "", max_amount_cents |-> -1,
                  has_allowlist |-> FALSE, merchant_allowlist |-> <<>>, ttl |-> -1]

\* context of an /evaluate request. amount_cents = -1: none given; amount_kind "number":
\* the integer amount_cents, "fraction": the number amount_cents + 0.5, "string": the
\* numeric string of amount_cents
NoContext == [orderId |-> "", amount_cents |-> -1, amount_kind |-> "number", merchant |-> ""]

Range(f) == {f[i] : i \in DOMAIN f}

RECURSIVE Unique(_)
Unique(q) ==
    IF q = <<>> THEN <<>>
    ELSE LET r == Unique(SubSeq(q, 1, Len(q) - 1))
             x == q[Len(q)]
         IN IF x \in Range(r) THEN r ELSE Append(r, x)

\* JSON.stringify of an array or object, and JSON.parse of that text
JsonText(v) == [json |-> v]
JsonParse(t) == t.json

\* constraints of a credential: max_amount_cents and merchants, each optional
NoConstraints == [has_max |-> FALSE, max_amount_cents |-> 0,
                  has_merchants |-> FALSE, merchants |-> <<>>]

\* selectOne(sql, params): the first row of the result, the rows taken in id order
selectOne(rows) ==
    IF rows = {} THEN {} ELSE {CHOOSE r \in rows : \A q \in rows : r.id <= q.id}

\* SELECT id FROM delegations WHERE subject=? AND agentId=? AND toolId=?
selectKey(subject, agentId, toolId) ==
    selectOne({r \in delegations :
                  r.subject = subject /\ r.agentId = agentId /\ r.toolId = toolId})

\* SELECT * FROM delegations WHERE subject=? AND agentId=? AND toolId=? AND not_after > ?
selectValid(subject, agentId, toolId) ==
    selectOne({r \in delegations :
                  /\ r.subject = subject /\ r.agentId = agentId /\ r.toolId = toolId
                  /\ r.not_after > nowSec})

\* the row as /evaluate reads it: scopes and constraints parsed from their JSON text
ParsedRow(found) ==
    IF found = {} THEN NoRow
    ELSE LET r == CHOOSE x \in found : TRUE
             C == JsonParse(r.constraints)
         IN [present |-> TRUE, scopes |-> JsonParse(r.scopes), not_after |-> r.not_after,
             has_max |-> C.has_max, max_amount_cents |-> C.max_amount_cents,
             has_merchants |-> C.has_merchants, merchants |-> C.merchants]

\* the delegation the gateway's /evaluate request finds (subject user-123, agent agent-demo)
selectDelegation(toolId) == ParsedRow(selectValid("user-123", "agent-demo", toolId))

DEMO_ALLOW_WITHOUT_DELEGATION == TRUE

\* a string of white space only, and String.prototype.trim over scope names
Spaces == <<" ">>
Trim(x) == IF x = Spaces THEN <<>> ELSE x

\* the constraints of the delegation deny the context: amount over the cap (a finite
\* number, truncated), or merchant outside the list
ConstraintsDeny(row, context) ==
    LET overCap == context.amount_cents # -1 /\ context.amount_kind # "string"
                   /\ row.has_max /\ context.amount_cents > row.max_amount_cents
        badMerchant == context.merchant # "" /\ row.has_merchants
                       /\ context.merchant \notin Range(row.merchants)
    IN overCap \/ badMerchant

\* the obligations of an allowed answer
Obligations_NoTtl(row, context) ==
    IF row.present
    THEN [bind_order |-> context.orderId,
          max_amount_cents |-> IF row.has_max THEN row.max_amount_cents ELSE -1,
          has_allowlist |-> row.has_merchants,
          merchant_allowlist |-> row.merchants,
          ttl |-> -1]
    ELSE [NoObligations EXCEPT !.bind_order = context.orderId]
Obligations(row, context) ==
    IF row.present
    THEN [bind_order |-> context.orderId,
          max_amount_cents |-> IF row.has_max THEN row.max_amount_cents ELSE -1,
          has_allowlist |-> row.has_merchants,
          merchant_allowlist |-> row.merchants,
          ttl |-> OBLIGATION_TTL]
    ELSE [NoObligations EXCEPT !.bind_order = context.orderId, !.ttl = OBLIGATION_TTL]

\* the decision of POST /evaluate with DEMO_ALLOW_WITHOUT_DELEGATION = demo
EvaluateMode(demo, row, requested_scopes, context) ==
    LET IsNonBlank(x) == x # <<>>
        IsTrimmedNonBlank(x) == Trim(x) # <<>>
        reqScopes == Unique(SelectSeq(requested_scopes, IsTrimmedNonBlank))
        delegated == Unique(SelectSeq(row.scopes, IsNonBlank))
        InDelegated(x) == x \in Range(delegated)
        intersection == SelectSeq(reqScopes, InDelegated)
        allowedScopes == IF ~row.present
                         THEN (IF demo THEN reqScopes ELSE <<>>)
                         ELSE IF Len(intersection) > 0 THEN intersection ELSE delegated
        allow0 == (row.present \/ demo)
                  /\ ~(row.present /\ Len(allowedScopes) = 0)
        allow == IF row.present THEN allow0 /\ ~ConstraintsDeny(row, context) ELSE allow0
        obligations == IF allow THEN Obligations(row, context) ELSE NoObligations
    IN [allow |-> allow, scopes |-> allowedScopes, obligations |-> obligations]

Evaluate(row, requested_scopes, context) ==
    EvaluateMode(DEMO_ALLOW_WITHOUT_DELEGATION, row, requested_scopes, context)

\* ------------------------------------------------------------------
\* ADP: POST /delegations, GET /delegations, DELETE /delegations, POST /evaluate as handlers
\* ------------------------------------------------------------------
\* Every handler reads and writes the table in one synchronous block: POST /delegations
\* awaits importJWK and jwtVerify before it and saveDb after it, DELETE answers after saveDb.
AdpResp(ep, status, error) ==
    [svc |-> "adp", ep |-> ep, status |-> status, error |-> error, body |-> EmptyBody]

\* const not_after = Number.isFinite(notAfterFromPayload) ? notAfterFromPayload : exp
ResolveNotAfter(payload) == IF payload.not_after # -1 THEN payload.not_after ELSE payload.exp

\* the 400 answers of POST /delegations in source order; "" when the credential is accepted.
\* d.verifies: the signature check of jwtVerify, which also rejects an exp claim in the past.
DelegationError(d) ==
    LET c == d.payload.constraints IN
    IF d.jws = "" \/ ~d.public_jwk THEN "invalid_request"
    ELSE IF ~d.verifies \/ (d.payload.exp # -1 /\ d.payload.exp + 5 <= nowSec)
    THEN "bad_delegation"
    ELSE IF d.payload.subject = "" \/ d.payload.agentId = "" \/ d.payload.toolId = ""
            \/ \E i \in DOMAIN d.payload.scopes : d.payload.scopes[i] = <<>>
    THEN "invalid_credential_payload"
    ELSE IF ResolveNotAfter(d.payload) = -1 THEN "missing_not_after"
    ELSE IF ResolveNotAfter(d.payload) <= nowSec THEN "expired_credential"
    ELSE IF c.kind = "invalid" THEN "invalid_constraints"
    ELSE IF c.kind = "object" /\ c.has_max /\ c.max_amount_cents <= 0
    THEN "invalid_constraints"
    ELSE ""

\* constraintsJson; a null column and the text "{}" read the same in /evaluate
ConstraintsJson(c) ==
    IF c.kind = "object"
    THEN JsonText([has_max |-> c.has_max, max_amount_cents |-> c.max_amount_cents,
                   has_merchants |-> c.has_merchants, merchants |-> c.merchants])
    ELSE JsonText(NoConstraints)

\* the row POST /delegations writes for credential d under id
DelegationRow_DropsScopes(d, id) ==
    [id |-> id, subject |-> d.payload.subject, agentId |-> d.payload.agentId,
     toolId |-> d.payload.toolId, scopes |-> JsonText(<<>>),
     not_after |-> ResolveNotAfter(d.payload), issuer |-> d.payload.iss, jws |-> d.jws,
     inserted_at |-> nowSec, constraints |-> ConstraintsJson(d.payload.constraints)]
DelegationRow(d, id) ==
    [id |-> id, subject |-> d.payload.subject, agentId |-> d.payload.agentId,
     toolId |-> d.payload.toolId, scopes |-> JsonText(d.payload.scopes),
     not_after |-> ResolveNotAfter(d.payload), issuer |-> d.payload.iss, jws |-> d.jws,
     inserted_at |-> nowSec, constraints |-> ConstraintsJson(d.payload.constraints)]

\* the table after the upsert for (subject, agentId, toolId): UPDATE ... WHERE id=? of the
\* existing row, INSERT of a new one otherwise
Upsert_AlwaysInsert(d) == delegations \cup {DelegationRow(d, sqlite_sequence + 1)}
Upsert(d) ==
    LET existing == selectKey(d.payload.subject, d.payload.agentId, d.payload.toolId) IN
    IF existing # {}
    THEN {IF r \in existing THEN DelegationRow(d, r.id) ELSE r : r \in delegations}
    ELSE delegations \cup {DelegationRow(d, sqlite_sequence + 1)}

\* POST /delegations; saved = FALSE: saveDb rejects after the table was written
DelegationsPost(d, saved) ==
    /\ IF DelegationError(d) # ""
       THEN /\ resp' = AdpResp("POST /delegations", 400, DelegationError(d))
            /\ UNCHANGED <<delegations, sqlite_sequence>>
       ELSE /\ delegations' = Upsert(d)
            /\ sqlite_sequence' =
                  IF selectKey(d.payload.subject, d.payload.agentId, d.payload.toolId) # {}
                  THEN sqlite_sequence ELSE sqlite_sequence + 1
            /\ resp' = IF ~saved THEN AdpResp("POST /delegations", 400, "bad_delegation")
                       ELSE [svc |-> "adp", ep |-> "POST /delegations", status |-> 201,
                             error |-> "", body |-> EmptyBody,
                             subject |-> d.payload.subject, agentId |-> d.payload.agentId,
                             toolId |-> d.payload.toolId, scopes |-> d.payload.scopes,
                             not_after |-> ResolveNotAfter(d.payload)]
    /\ UNCHANGED <<now, EXPECTED_AUD, CLIENTS, ORDERS, SESSION, sess, nextSid, start, cb, mcp,
                   AUTHZ, nextCode, tok, mintCount, ttlExpired>>

\* SELECT id, subject, agentId, toolId, scopes, not_after, issuer, inserted_at
GetRow(r) ==
    [id |-> r.id, subject |-> r.subject, agentId |-> r.agentId, toolId |-> r.toolId,
     scopes |-> r.scopes, not_after |-> r.not_after, issuer |-> r.issuer,
     inserted_at |-> r.inserted_at]

\* GET /delegations; rows with equal inserted_at come in no fixed order, so rows is a set
DelegationsGet ==
    /\ resp' = [svc |-> "adp", ep |-> "GET /delegations", status |-> 200, error |-> "",
                body |-> EmptyBody, count |-> Cardinality(delegations),
                rows |-> {GetRow(r) : r \in delegations}]
    /\ UNCHANGED <<now, EXPECTED_AUD, CLIENTS, delegations, sqlite_sequence, ORDERS, SESSION, sess,
                   nextSid, start, cb, mcp, AUTHZ, nextCode, tok, mintCount, ttlExpired>>

\* DELETE /delegations
DelegationsDelete(subject, agentId, toolId) ==
    /\ IF subject = "" \/ agentId = "" \/ toolId = ""
       THEN /\ resp' = AdpResp("DELETE /delegations", 400, "invalid_request")
            /\ UNCHANGED delegations
       ELSE /\ delegations' = {r \in delegations : ~(r.subject = subject /\ r.agentId = agentId
                                                      /\ r.toolId = toolId)}
            /\ resp' = AdpResp("DELETE /delegations", 200, "")
    /\ UNCHANGED <<now, EXPECTED_AUD, CLIENTS, sqlite_sequence, ORDERS, SESSION, sess, nextSid, start,
                   cb, mcp, AUTHZ, nextCode, tok, mintCount, ttlExpired>>

\* POST /evaluate; e.subject = "": the request names no subject (default "user-123")
EvaluatePost(e) ==
    /\ LET subject == IF e.subject = "" THEN "user-123" ELSE e.subject
           r == Evaluate(ParsedRow(selectValid(subject, e.agentId, e.toolId)),
                         e.requested_scopes, e.context)
       IN resp' = [svc |-> "adp", ep |-> "/evaluate", status |-> 200, error |-> "",
                   body |-> EmptyBody, req |-> e, allow |-> r.allow, scopes |-> r.scopes,
                   obligations |-> r.obligations]
    /\ UNCHANGED <<now, EXPECTED_AUD, CLIENTS, delegations, sqlite_sequence, ORDERS, SESSION, sess,
                   nextSid, start, cb, mcp, AUTHZ, nextCode, tok, mintCount, ttlExpired>>

\* const allCovered = reqScopes.every(s => delegated.has(s))
AllCovered_Some(delegatedArr, reqScopes) ==
    \E i \in DOMAIN reqScopes : reqScopes[i] \in {x \in Range(delegatedArr) : x # <<>>}
AllCovered(delegatedArr, reqScopes) ==
    \A i \in DOMAIN reqScopes : reqScopes[i] \in {x \in Range(delegatedArr) : x # <<>>}

\* the decision of POST /consent; c.subject = "": the request names no subject (default
\* "user-123"); kind is the prefix of record_id (auto-<Date.now()> or exp-<Date.now()>)
ConsentDecision(c) ==
    LET subject == IF c.subject = "" THEN "user-123" ELSE c.subject
        IsNonEmpty(x) == x # <<>>
        reqScopes == SelectSeq(c.scopes, IsNonEmpty)
        row == ParsedRow(selectValid(subject, c.agentId, c.toolId))
    IN IF row.present /\ AllCovered(row.scopes, reqScopes)
       THEN [allow |-> TRUE, kind |-> "auto", reason |-> ""]
       ELSE IF c.explicit THEN [allow |-> TRUE, kind |-> "exp", reason |-> ""]
       ELSE [allow |-> FALSE, kind |-> "", reason |-> "explicit_required"]

\* POST /consent
ConsentPost(c) ==
    /\ LET d == ConsentDecision(c)
       IN resp' = [svc |-> "adp", ep |-> "/consent", status |-> 200, error |-> "",
                   body |-> EmptyBody, req |-> c, allow |-> d.allow,
                   record_id |-> [kind |-> d.kind, ts |-> IF d.kind = "" THEN 0 ELSE now],
                   reason |-> d.reason]
    /\ UNCHANGED <<now, EXPECTED_AUD, CLIENTS, delegations, sqlite_sequence, ORDERS, SESSION, sess,
                   nextSid, start, cb, mcp, AUTHZ, nextCode, tok, mintCount, ttlExpired>>

\* ------------------------------------------------------------------
\* Gateway: sessions
\* ------------------------------------------------------------------
Sids == 1..MaxSessions

NoSession ==
    [created |-> FALSE, s |-> 0, scope |-> <<>>, scopesList |-> <<>>, audience |-> "",
     toolId |-> "", context |-> NoContext, obligations |-> NoObligations,
     obligations_issued_at |-> 0, code_verifier |-> 0, code_challenge |-> NoChallenge,
     state |-> NoState, ready |-> FALSE, used |-> FALSE, access_token |-> NoToken,
     refresh_token |-> "", expires_in |-> 0, obtained_at |-> 0, expires_at |-> 0]

IdleStart == [pc |-> "idle", toolId |-> "", scope |-> <<>>, context |-> NoContext,
              evalResp |-> [allow |-> FALSE, scopes |-> <<>>, obligations |-> NoObligations],
              sid |-> 0]

RECURSIVE JoinWords(_)
JoinWords(list) == IF list = <<>> THEN <<>> ELSE Head(list) \o JoinWords(Tail(list))

\* function listReadySessions()
listReadySessions == {s \in SESSION : sess[s].ready /\ sess[s].access_token # NoToken}

\* function getSessionForScope(requiredScope): the newest candidate by obtained_at;
\* Array.prototype.sort is stable, so ties keep Map insertion order.  0 when none.
getSessionForScope_AnyReady(requiredScope) ==
    LET candidates == listReadySessions IN
    IF candidates = {} THEN 0
    ELSE CHOOSE s \in candidates :
            \A t \in candidates :
               \/ sess[s].obtained_at > sess[t].obtained_at
               \/ (sess[s].obtained_at = sess[t].obtained_at /\ s <= t)
getSessionForScope(requiredScope) ==
    LET candidates == {s \in listReadySessions : requiredScope \in Range(sess[s].scopesList)} IN
    IF candidates = {} THEN 0
    ELSE CHOOSE s \in candidates :
            \A t \in candidates :
               \/ sess[s].obtained_at > sess[t].obtained_at
               \/ (sess[s].obtained_at = sess[t].obtained_at /\ s <= t)

hasAnyReadySession == listReadySessions # {}

GwResp(ep, status, error, body) ==
    [svc |-> "gw", ep |-> ep, status |-> status, error |-> error, body |-> body]

\* the authorize URL of a session (POST /session/start, POST /consent/approve)
AuthorizeUrl(o) ==
    [response_type |-> "code", client_id |-> "demo-client", redirect_uri |-> GW_CALLBACK,
     scope |-> o.scope, state |-> o.state, code_challenge |-> o.code_challenge,
     code_challenge_method |-> "S256", resource |-> <<o.audience>>]

\* ------------------------------------------------------------------
\* Gateway: POST /session/start
\* ------------------------------------------------------------------
\* request, RS/AS discovery and the ADP's answer to /evaluate; ok = FALSE: a fetch failed
StartBegin(toolId, scope, context, ok) ==
    /\ start.pc = "idle"
    /\ nextSid <= MaxSessions
    /\ IF ok
       THEN /\ start' = [IdleStart EXCEPT !.pc = "evaluated", !.toolId = toolId,
                           !.scope = scope, !.context = context,
                           !.evalResp = Evaluate(selectDelegation(toolId), <<scope>>, context)]
            /\ resp' = NoResp
       ELSE /\ resp' = GwResp("/session/start", 500, "start_failed", EmptyBody)
            /\ UNCHANGED start
    /\ UNCHANGED <<now, EXPECTED_AUD, CLIENTS, delegations, sqlite_sequence, ORDERS, SESSION, sess, nextSid, cb, mcp,
                   AUTHZ, nextCode, tok, mintCount, ttlExpired>>

NewSession(st, s) ==
    LET audience == IF EXPECTED_AUD # "" THEN EXPECTED_AUD ELSE "mcp-demo"
        scopesList == IF Len(st.evalResp.scopes) > 0 THEN st.evalResp.scopes ELSE <<st.scope>>
        scopeStr == JoinWords(scopesList)
    IN [NoSession EXCEPT
          !.created = TRUE, !.s = s, !.scope = scopeStr, !.scopesList = scopesList,
          !.audience = audience, !.toolId = st.toolId, !.context = st.context,
          !.obligations = st.evalResp.obligations, !.obligations_issued_at = now,
          !.code_verifier = s, !.code_challenge = Sha256(s),
          !.state = signState([sid |-> s, aud |-> audience, scope |-> scopeStr])]

\* if (!evalResp.allow) return res.status(403).json({ error: "denied_by_policy" })
StartDenied_Never(evalResp) == FALSE
StartDenied(evalResp) == ~evalResp.allow

\* after /evaluate: deny, or SESSION.set(...) and the call of ADP /consent
StartInsert ==
    /\ start.pc = "evaluated"
    /\ IF StartDenied(start.evalResp)
       THEN /\ resp' = GwResp("/session/start", 403, "denied_by_policy", EmptyBody)
            /\ start' = IdleStart
            /\ UNCHANGED <<SESSION, sess, nextSid>>
       ELSE /\ sess' = [sess EXCEPT ![nextSid] = NewSession(start, nextSid)]
            /\ SESSION' = SESSION \cup {nextSid}
            /\ nextSid' = nextSid + 1
            /\ start' = [start EXCEPT !.pc = "consenting", !.sid = nextSid]
            /\ resp' = NoResp
    /\ UNCHANGED <<now, EXPECTED_AUD, CLIENTS, delegations, sqlite_sequence, ORDERS, cb, mcp,
                   AUTHZ, nextCode, tok, mintCount, ttlExpired>>

\* after /consent (its answer is not read): the response; ok = FALSE: the fetch failed
StartRespond(ok) ==
    /\ start.pc = "consenting"
    /\ start' = IdleStart
    /\ resp' = IF ok
               THEN [svc |-> "gw", ep |-> "/session/start", status |-> 200, error |-> "",
                     body |-> [strs |-> {"sid", "authorize_url"}, toks |-> {}],
                     sid |-> start.sid, authorize_url |-> AuthorizeUrl(sess[start.sid])]
               ELSE GwResp("/session/start", 500, "start_failed", EmptyBody)
    /\ UNCHANGED <<now, EXPECTED_AUD, CLIENTS, delegations, sqlite_sequence, ORDERS, SESSION, sess, nextSid, cb, mcp,
                   AUTHZ, nextCode, tok, mintCount, ttlExpired>>

\* ------------------------------------------------------------------
\* Gateway: GET /oauth/callback
\* ------------------------------------------------------------------
NoTokRes == [ok |-> FALSE, access_token |-> NoToken, refresh_token |-> "", expires_in |-> -1,
             text |-> ""]

IdleCb == [pc |-> "idle", sid |-> 0, code |-> NoCode, state |-> NoState, b |-> NoBody,
           tokres |-> NoTokRes]

FreeCb == CHOOSE k \in 1..MaxCb : cb[k].pc = "idle" /\ \A j \in 1..(k-1) : cb[j].pc # "idle"

\* the checks before the token exchange: the status and page of the rejection, status 0 to go on
CallbackCheck_NoUsedCheck(state, error) ==
    LET v == verifyState(state)
        s == v.json.sid
    IN IF error # "" THEN [status |-> 400, page |-> "Authorization error"]
       ELSE IF v.err = "throws" THEN [status |-> 500, page |-> "Callback error"]
       ELSE IF ~v.ok THEN [status |-> 400, page |-> "Invalid state"]
       ELSE IF s \notin SESSION THEN [status |-> 400, page |-> "Unknown or expired session"]
       ELSE IF v.json.aud # sess[s].audience \/ v.json.scope # sess[s].scope
            THEN [status |-> 400, page |-> "Session/state mismatch"]
       ELSE [status |-> 0, page |-> ""]
CallbackCheck(state, error) ==
    LET v == verifyState(state)
        s == v.json.sid
    IN IF error # "" THEN [status |-> 400, page |-> "Authorization error"]
       ELSE IF v.err = "throws" THEN [status |-> 500, page |-> "Callback error"]
       ELSE IF ~v.ok THEN [status |-> 400, page |-> "Invalid state"]
       ELSE IF s \notin SESSION THEN [status |-> 400, page |-> "Unknown or expired session"]
       ELSE IF sess[s].used THEN [status |-> 400, page |-> "Session already completed"]
       ELSE IF v.json.aud # sess[s].audience \/ v.json.scope # sess[s].scope
            THEN [status |-> 400, page |-> "Session/state mismatch"]
       ELSE [status |-> 0, page |-> ""]

\* the body of the token request
TokenRequestBody_NoResource(o, code) ==
    [grant_type |-> "authorization_code", code |-> code, redirect_uri |-> GW_CALLBACK,
     client_id |-> "demo-client", code_verifier |-> o.code_verifier,
     resource |-> <<>>]
TokenRequestBody(o, code) ==
    [grant_type |-> "authorization_code", code |-> code, redirect_uri |-> GW_CALLBACK,
     client_id |-> "demo-client", code_verifier |-> o.code_verifier,
     resource |-> <<o.audience>>]

CbResp(status, page, detail) ==
    [svc |-> "gw", ep |-> "/oauth/callback", status |-> status, error |-> page,
     body |-> [strs |-> {page} \cup (IF detail = "" THEN {} ELSE {detail}), toks |-> {}]]

\* the handler up to the await of fetch(token_endpoint)
CallbackBegin(code, state, error) ==
    /\ LET c == CallbackCheck(state, error)
           s == state.p.sid
       IN IF c.status # 0
          THEN /\ resp' = CbResp(c.status, c.page, error)
               /\ UNCHANGED cb
          ELSE /\ \E k \in 1..MaxCb : cb[k].pc = "idle"
               /\ cb' = [cb EXCEPT ![FreeCb] =
                            [IdleCb EXCEPT !.pc = "fetching", !.sid = s, !.code = code,
                                           !.state = state,
                                           !.b = TokenRequestBody(sess[s], code)]]
               /\ resp' = NoResp
    /\ UNCHANGED <<now, EXPECTED_AUD, CLIENTS, delegations, sqlite_sequence, ORDERS, SESSION, sess, nextSid, start, mcp,
                   AUTHZ, nextCode, tok, mintCount, ttlExpired>>

\* fetch(token_endpoint) rejects (transport failure): the catch block
CallbackFetchFails(k) ==
    /\ cb[k].pc = "fetching"
    /\ cb' = [cb EXCEPT ![k] = IdleCb]
    /\ resp' = CbResp(500, "Callback error", "")
    /\ UNCHANGED <<now, EXPECTED_AUD, CLIENTS, delegations, sqlite_sequence, ORDERS, SESSION, sess, nextSid, start, mcp,
                   AUTHZ, nextCode, tok, mintCount, ttlExpired>>

\* sess.access_token = ...; ...; sess.used = true; sess.ready = true
Finalize_NotReady(o, j) ==
    LET expires_in == IF j.expires_in # -1 THEN j.expires_in ELSE DEFAULT_EXPIRES_IN IN
    [o EXCEPT !.access_token = j.access_token, !.refresh_token = j.refresh_token,
              !.expires_in = expires_in,
              !.obtained_at = now, !.expires_at = now + expires_in * 1000,
              !.code_verifier = 0, !.used = TRUE]
Finalize_KeepsVerifier(o, j) ==
    LET expires_in == IF j.expires_in # -1 THEN j.expires_in ELSE DEFAULT_EXPIRES_IN IN
    [o EXCEPT !.access_token = j.access_token, !.refresh_token = j.refresh_token,
              !.expires_in = expires_in,
              !.obtained_at = now, !.expires_at = now + expires_in * 1000,
              !.used = TRUE, !.ready = TRUE]
Finalize_ReadyBeforeToken(o, j) ==
    [o EXCEPT !.code_verifier = 0, !.used = TRUE, !.ready = TRUE]
Finalize(o, j) ==
    LET expires_in == IF j.expires_in # -1 THEN j.expires_in ELSE DEFAULT_EXPIRES_IN IN
    [o EXCEPT !.access_token = j.access_token, !.refresh_token = j.refresh_token,
              !.expires_in = expires_in,
              !.obtained_at = now, !.expires_at = now + expires_in * 1000,
              !.code_verifier = 0, !.used = TRUE, !.ready = TRUE]

\* if (!tok.ok) return ...; if (!j.access_token) return ...: the session as the handler
\* leaves it when the token exchange gave no token
ExchangeFailed_MarksUsed(o) == [o EXCEPT !.used = TRUE, !.code_verifier = 0]
ExchangeFailed(o) == o

\* the handler after the token response
CallbackFinish(k) ==
    /\ cb[k].pc = "responded"
    /\ cb' = [cb EXCEPT ![k] = IdleCb]
    /\ IF ~cb[k].tokres.ok
       THEN /\ resp' = CbResp(502, "Token exchange failed", cb[k].tokres.text)
            /\ sess' = [sess EXCEPT ![cb[k].sid] = ExchangeFailed(@)]
       ELSE IF cb[k].tokres.access_token = NoToken
       THEN /\ resp' = CbResp(502, "No access_token in token response", "")
            /\ sess' = [sess EXCEPT ![cb[k].sid] = ExchangeFailed(@)]
       ELSE /\ sess' = [sess EXCEPT ![cb[k].sid] = Finalize(@, cb[k].tokres)]
            /\ resp' = CbResp(200, "All set", "")
    /\ UNCHANGED <<now, EXPECTED_AUD, CLIENTS, delegations, sqlite_sequence, ORDERS, SESSION, nextSid, start, mcp,
                   AUTHZ, nextCode, tok, mintCount, ttlExpired>>

\* ------------------------------------------------------------------
\* AS: POST /token, as a handler
\* ------------------------------------------------------------------
\* a token request sent by any client of the AS
TokenPost(b) ==
    /\ TokenPostAS(b, 0)
    /\ UNCHANGED <<now, EXPECTED_AUD, CLIENTS, delegations, sqlite_sequence, ORDERS, SESSION, sess, nextSid, start, cb,
                   mcp, nextCode, mintCount, ttlExpired>>

\* the token request of the gateway callback k reaches the AS
TokenPostGw(k) ==
    /\ cb[k].pc = "fetching"
    /\ TokenPostAS(cb[k].b, k)
    /\ cb' = [cb EXCEPT ![k] =
                 IF TokenError(cb[k].b) # ""
                 THEN [@ EXCEPT !.pc = "responded",
                                !.tokres = [NoTokRes EXCEPT !.text = TokenError(cb[k].b)]]
                 ELSE [@ EXCEPT !.pc = "waiting"]]
    /\ UNCHANGED <<now, EXPECTED_AUD, CLIENTS, delegations, sqlite_sequence, ORDERS, SESSION, sess, nextSid, start,
                   mcp, nextCode, mintCount, ttlExpired>>

\* sign() resolves: res.json({access_token, token_type, expires_in: 900, scope})
TokenSign(k) ==
    /\ tok[k].pc = "signing"
    /\ tok' = [tok EXCEPT ![k] = IdleTok]
    /\ mintCount' = [mintCount EXCEPT ![tok[k].b.code] = @ + 1]
    /\ resp' = TokResp(200, "", tok[k].accessToken, tok[k].b, tok[k].replay)
    /\ cb' = IF tok[k].replyTo = 0 THEN cb
             ELSE [cb EXCEPT ![tok[k].replyTo] =
                      [@ EXCEPT !.pc = "responded",
                                !.tokres = [ok |-> TRUE, access_token |-> tok[k].accessToken,
                                            refresh_token |-> "", expires_in |-> EXPIRES_IN,
                                            text |-> ""]]]
    /\ UNCHANGED <<now, EXPECTED_AUD, CLIENTS, delegations, sqlite_sequence, ORDERS, SESSION, sess, nextSid, start,
                   mcp, AUTHZ, nextCode, ttlExpired>>

\* ------------------------------------------------------------------
\* AS: POST /introspect, and the RS behind it
\* ------------------------------------------------------------------
\* jwtVerify(token, HMAC_SECRET, {issuer}): the signature holds for every token the AS
\* minted; a token is rejected when its exp is not after the current second
Introspect(token) ==
    IF token # NoToken /\ token.iss = ISSUER /\ token.exp > nowSec
    THEN [active |-> TRUE, scope |-> token.scope, sub |-> token.sub, aud |-> token.aud]
    ELSE [active |-> FALSE, scope |-> <<>>, sub |-> "", aud |-> ""]

hasScope(introspection, needed) == Range(needed) \subseteq Range(introspection.scope)

\* function unauthorized(res, details): the WWW-Authenticate header of a 401
NoWww == [realm |-> "", error |-> "", error_description |-> "", resource_metadata |-> ""]
unauthorized(details) ==
    [realm |-> EXPECTED_AUD, error |-> "invalid_token", error_description |-> details,
     resource_metadata |-> "http://localhost:9091/.well-known/oauth-protected-resource"]

\* requireAuth(requiredScope): status 0 when the request may proceed
requireAuth_NoAudCheck(token, requiredScope) ==
    LET data == Introspect(token) IN
    IF token = NoToken
    THEN [status |-> 401, error |-> "invalid_token", www |-> unauthorized("missing bearer")]
    ELSE IF ~data.active
    THEN [status |-> 401, error |-> "inactive_token", www |-> unauthorized("inactive token")]
    ELSE IF ~hasScope(data, requiredScope)
    THEN [status |-> 403, error |-> "insufficient_scope", www |-> NoWww]
    ELSE [status |-> 0, error |-> "", www |-> NoWww]
requireAuth(token, requiredScope) ==
    LET data == Introspect(token) IN
    IF token = NoToken
    THEN [status |-> 401, error |-> "invalid_token", www |-> unauthorized("missing bearer")]
    ELSE IF ~data.active
    THEN [status |-> 401, error |-> "inactive_token", www |-> unauthorized("inactive token")]
    ELSE IF data.aud # "" /\ data.aud # EXPECTED_AUD
    THEN [status |-> 401, error |-> "bad_audience", www |-> unauthorized("bad audience")]
    ELSE IF ~hasScope(data, requiredScope)
    THEN [status |-> 403, error |-> "insufficient_scope", www |-> NoWww]
    ELSE [status |-> 0, error |-> "", www |-> NoWww]

\* amount_cents = -1: the body has none; amount_is_integer = FALSE: its amount_cents is
\* not an integer for Number.isInteger (a numeric string, a number with a fraction)
NoReq == [msg |-> "", orderId |-> "", amount_cents |-> -1, amount_is_integer |-> TRUE,
          merchant_id |-> ""]
NoUp == [status |-> 0, error |-> "", body |-> EmptyBody]
IdleMcp == [pc |-> "idle", tool |-> "", sid |-> 0, bearer |-> NoToken, req |-> NoReq,
            at |-> 0, up |-> NoUp]

RequiredScope(tool) ==
    CASE tool = "echo" -> <<"echo:read">>
      [] tool = "tickets" -> <<"tickets:read">>
      [] tool = "pay" -> <<"payments:charge">>

\* the RS route behind a gateway tool: /mcp/echo, /tickets, /orders/:id/pay
RSRoute(tool, bearer, req) ==
    LET a == requireAuth(bearer, RequiredScope(tool))
        data == Introspect(bearer)
    IN IF a.status # 0
       THEN [status |-> a.status, error |-> a.error,
             body |-> [strs |-> {a.error} \cup (IF a.error = "bad_audience"
                                                THEN {EXPECTED_AUD, data.aud} ELSE {}),
                       toks |-> {}]]
       ELSE IF tool = "echo"
       THEN [status |-> 200, error |-> "",
             body |-> [strs |-> {req.msg, data.sub} \cup Range(data.scope), toks |-> {}]]
       ELSE IF tool = "tickets"
       THEN [status |-> 200, error |-> "", body |-> [strs |-> {"tickets"}, toks |-> {}]]
       ELSE IF req.orderId \notin DOMAIN ORDERS
       THEN [status |-> 404, error |-> "order_not_found",
             body |-> [strs |-> {"order_not_found"}, toks |-> {}]]
       ELSE IF ORDERS[req.orderId].status # "created"
       THEN [status |-> 409, error |-> "invalid_state",
             body |-> [strs |-> {"invalid_state", ORDERS[req.orderId].status}, toks |-> {}]]
       ELSE [status |-> 200, error |-> "",
             body |-> [strs |-> {"succeeded", req.orderId, data.sub}, toks |-> {}]]

\* the RS serves the request forwarded by handler k
RSHandle(k) ==
    /\ mcp[k].pc = "forwarded"
    /\ LET r == RSRoute(mcp[k].tool, mcp[k].bearer, mcp[k].req) IN
       /\ mcp' = [mcp EXCEPT ![k] = [@ EXCEPT !.pc = "answered", !.up = r]]
       /\ ORDERS' = IF mcp[k].tool = "pay" /\ r.status = 200
                    THEN [ORDERS EXCEPT ![mcp[k].req.orderId] = [@ EXCEPT !.status = "paid"]]
                    ELSE ORDERS
    /\ resp' = NoResp
    /\ UNCHANGED <<now, EXPECTED_AUD, CLIENTS, delegations, sqlite_sequence, SESSION, sess, nextSid, start, cb,
                   AUTHZ, nextCode, tok, mintCount, ttlExpired>>

\* POST /orders (the first route registered for it, without requireAuth): body b is
\* [id, amount_cents, amount_is_integer, merchant_id]
OrdersPost(b) ==
    /\ IF b.id = "" \/ ~b.amount_is_integer
       THEN /\ resp' = [svc |-> "rs", ep |-> "/orders", status |-> 400,
                        error |-> "invalid_request", body |-> EmptyBody]
            /\ UNCHANGED ORDERS
       ELSE IF b.id \in DOMAIN ORDERS
       THEN /\ resp' = [svc |-> "rs", ep |-> "/orders", status |-> 409,
                        error |-> "order_exists", body |-> EmptyBody]
            /\ UNCHANGED ORDERS
       ELSE /\ ORDERS' = ORDERS @@ (b.id :> [amount_cents |-> b.amount_cents,
                                             merchant_id |-> b.merchant_id,
                                             status |-> "created"])
            /\ resp' = [svc |-> "rs", ep |-> "/orders", status |-> 201, error |-> "",
                        body |-> [strs |-> {b.id, b.merchant_id, "created"}, toks |-> {}]]
    /\ UNCHANGED <<now, EXPECTED_AUD, CLIENTS, delegations, sqlite_sequence, SESSION, sess, nextSid, start, cb,
                   mcp, AUTHZ, nextCode, tok, mintCount, ttlExpired>>

\* a client calls the RS route directly with its own bearer token
RSRequest(tool, bearer, req) ==
    /\ LET r == RSRoute(tool, bearer, req) IN
       /\ ORDERS' = IF tool = "pay" /\ r.status = 200
                    THEN [ORDERS EXCEPT ![req.orderId] = [@ EXCEPT !.status = "paid"]]
                    ELSE ORDERS
       /\ resp' = [svc |-> "rs", ep |-> tool, status |-> r.status, error |-> r.error,
                   body |-> r.body, www |-> requireAuth(bearer, RequiredScope(tool)).www]
    /\ UNCHANGED <<now, EXPECTED_AUD, CLIENTS, delegations, sqlite_sequence, SESSION, sess, nextSid, start, cb,
                   mcp, AUTHZ, nextCode, tok, mintCount, ttlExpired>>

\* ------------------------------------------------------------------
\* Gateway: /mcp/echo, /mcp/tickets, /mcp/pay
\* ------------------------------------------------------------------
FreeMcp == CHOOSE k \in 1..MaxMcp : mcp[k].pc = "idle" /\ \A j \in 1..(k-1) : mcp[j].pc # "idle"

McpResp(ep, status, error, detail, body, sid) ==
    [svc |-> "gw", ep |-> ep, status |-> status, error |-> error, detail |-> detail,
     body |-> body, sid |-> sid]

\* sess.ready = false; sess.access_token = undefined
ClearToken_ReadyOnly(o) == [o EXCEPT !.ready = FALSE]
ClearToken(o) == [o EXCEPT !.ready = FALSE, !.access_token = NoToken]

\* fetch(url, {headers: {Authorization: `Bearer ${sess.access_token}`}})
Forward(tool, s, req) ==
    /\ \E k \in 1..MaxMcp : mcp[k].pc = "idle"
    /\ mcp' = [mcp EXCEPT ![FreeMcp] =
                  [IdleMcp EXCEPT !.pc = "forwarded", !.tool = tool, !.sid = s,
                                  !.bearer = sess[s].access_token, !.req = req, !.at = now]]

\* GET /mcp/echo and GET /mcp/tickets up to the await of the upstream fetch
McpGet(tool, req) ==
    /\ tool \in {"echo", "tickets"}
    /\ LET s == getSessionForScope(RequiredScope(tool)) IN
       IF s = 0
       THEN /\ resp' = McpResp(tool, 401, "login_required", "", EmptyBody, 0)
            /\ UNCHANGED mcp
       ELSE /\ Forward(tool, s, req)
            /\ resp' = NoResp
    /\ UNCHANGED <<now, EXPECTED_AUD, CLIENTS, delegations, sqlite_sequence, ORDERS, SESSION, sess, nextSid, start, cb,
                   AUTHZ, nextCode, tok, mintCount, ttlExpired>>

\* the obligation checks of POST /mcp/pay, in source order; status 0: forward
PayCheck_NoBindCheck(o, req) ==
    LET ob == o.obligations
        issuedAt == IF o.obligations_issued_at # 0 THEN o.obligations_issued_at
                    ELSE IF o.obtained_at # 0 THEN o.obtained_at ELSE now
        ageSec == (now - issuedAt) \div 1000
    IN IF req.orderId = ""
       THEN [status |-> 400, error |-> "invalid_request", detail |-> "orderId required"]
       ELSE IF ob.max_amount_cents # -1 /\ req.amount_cents # -1 /\ req.amount_is_integer
               /\ req.amount_cents > ob.max_amount_cents
       THEN [status |-> 403, error |-> "obligation_violation", detail |-> "amount exceeds max"]
       ELSE IF ob.has_allowlist /\ Len(ob.merchant_allowlist) > 0
               /\ (req.merchant_id = "" \/ req.merchant_id \notin Range(ob.merchant_allowlist))
       THEN [status |-> 403, error |-> "obligation_violation", detail |-> "merchant not allowed"]
       ELSE IF ob.ttl # -1 /\ ageSec > ob.ttl
       THEN [status |-> 401, error |-> "session_obligation_ttl_expired", detail |-> ""]
       ELSE [status |-> 0, error |-> "", detail |-> ""]
PayCheck_TtlFirst(o, req) ==
    LET ob == o.obligations
        issuedAt == IF o.obligations_issued_at # 0 THEN o.obligations_issued_at
                    ELSE IF o.obtained_at # 0 THEN o.obtained_at ELSE now
        ageSec == (now - issuedAt) \div 1000
    IN IF req.orderId = ""
       THEN [status |-> 400, error |-> "invalid_request", detail |-> "orderId required"]
       ELSE IF ob.ttl # -1 /\ ageSec > ob.ttl
       THEN [status |-> 401, error |-> "session_obligation_ttl_expired", detail |-> ""]
       ELSE IF ob.bind_order # "" /\ req.orderId # ob.bind_order
       THEN [status |-> 403, error |-> "obligation_violation", detail |-> "orderId mismatch"]
       ELSE IF ob.max_amount_cents # -1 /\ req.amount_cents # -1 /\ req.amount_is_integer
               /\ req.amount_cents > ob.max_amount_cents
       THEN [status |-> 403, error |-> "obligation_violation", detail |-> "amount exceeds max"]
       ELSE IF ob.has_allowlist /\ Len(ob.merchant_allowlist) > 0
               /\ (req.merchant_id = "" \/ req.merchant_id \notin Range(ob.merchant_allowlist))
       THEN [status |-> 403, error |-> "obligation_violation", detail |-> "merchant not allowed"]
       ELSE [status |-> 0, error |-> "", detail |-> ""]
PayCheck(o, req) ==
    LET ob == o.obligations
        issuedAt == IF o.obligations_issued_at # 0 THEN o.obligations_issued_at
                    ELSE IF o.obtained_at # 0 THEN o.obtained_at ELSE now
        ageSec == (now - issuedAt) \div 1000
    IN IF req.orderId = ""
       THEN [status |-> 400, error |-> "invalid_request", detail |-> "orderId required"]
       ELSE IF ob.bind_order # "" /\ req.orderId # ob.bind_order
       THEN [status |-> 403, error |-> "obligation_violation", detail |-> "orderId mismatch"]
       ELSE IF ob.max_amount_cents # -1 /\ req.amount_cents # -1 /\ req.amount_is_integer
               /\ req.amount_cents > ob.max_amount_cents
       THEN [status |-> 403, error |-> "obligation_violation", detail |-> "amount exceeds max"]
       ELSE IF ob.has_allowlist /\ Len(ob.merchant_allowlist) > 0
               /\ (req.merchant_id = "" \/ req.merchant_id \notin Range(ob.merchant_allowlist))
       THEN [status |-> 403, error |-> "obligation_violation", detail |-> "merchant not allowed"]
       ELSE IF ob.ttl # -1 /\ ageSec > ob.ttl
       THEN [status |-> 401, error |-> "session_obligation_ttl_expired", detail |-> ""]
       ELSE [status |-> 0, error |-> "", detail |-> ""]

\* the rejection after which /mcp/pay clears the session (force re-auth)
ClearsOnReject_Always(c) == TRUE
ClearsOnReject(c) == c.error = "session_obligation_ttl_expired"

\* POST /mcp/pay up to the await of the upstream fetch
McpPay(req) ==
    /\ LET s == getSessionForScope(RequiredScope("pay")) IN
       IF s = 0
       THEN /\ resp' = McpResp("pay", 401, "login_required", "", EmptyBody, 0)
            /\ UNCHANGED <<mcp, sess, ttlExpired>>
       ELSE LET c == PayCheck(sess[s], req) IN
            IF c.status # 0
            THEN /\ resp' = McpResp("pay", c.status, c.error, c.detail,
                                    [strs |-> {c.error, c.detail}, toks |-> {}], s)
                 /\ sess' = IF ClearsOnReject(c)
                            THEN [sess EXCEPT ![s] = ClearToken(@)] ELSE sess
                 /\ ttlExpired' = IF c.error = "session_obligation_ttl_expired"
                                  THEN [ttlExpired EXCEPT ![s] = @ + 1] ELSE ttlExpired
                 /\ UNCHANGED mcp
            ELSE /\ Forward("pay", s, req)
                 /\ resp' = NoResp
                 /\ UNCHANGED <<sess, ttlExpired>>
    /\ UNCHANGED <<now, EXPECTED_AUD, CLIENTS, delegations, sqlite_sequence, ORDERS, SESSION, nextSid, start, cb,
                   AUTHZ, nextCode, tok, mintCount>>

\* the upstream fetch rejects (transport failure): 502 bad_gateway
UpstreamFail(k) ==
    /\ mcp[k].pc = "forwarded"
    /\ mcp' = [mcp EXCEPT ![k] = IdleMcp]
    /\ resp' = McpResp(mcp[k].tool, 502, "bad_gateway", "", EmptyBody, mcp[k].sid)
    /\ UNCHANGED <<now, EXPECTED_AUD, CLIENTS, delegations, sqlite_sequence, ORDERS, SESSION, sess, nextSid, start, cb,
                   AUTHZ, nextCode, tok, mintCount, ttlExpired>>

\* the handler after the upstream response; /mcp/pay adds the upstream text as detail
McpFinish(k) ==
    /\ mcp[k].pc = "answered"
    /\ mcp' = [mcp EXCEPT ![k] = IdleMcp]
    /\ IF mcp[k].up.status \in {401, 403}
       THEN /\ sess' = [sess EXCEPT ![mcp[k].sid] = ClearToken(@)]
            /\ resp' = McpResp(mcp[k].tool, 401, "login_required",
                               IF mcp[k].tool = "pay" THEN mcp[k].up.error ELSE "",
                               IF mcp[k].tool = "pay" THEN mcp[k].up.body ELSE EmptyBody,
                               mcp[k].sid)
       ELSE /\ resp' = McpResp(mcp[k].tool, mcp[k].up.status, mcp[k].up.error, "",
                               mcp[k].up.body, mcp[k].sid)
            /\ UNCHANGED sess
    /\ UNCHANGED <<now, EXPECTED_AUD, CLIENTS, delegations, sqlite_sequence, ORDERS, SESSION, nextSid, start, cb,
                   AUTHZ, nextCode, tok, mintCount, ttlExpired>>

\* ------------------------------------------------------------------
\* Gateway: the remaining endpoints
\* ------------------------------------------------------------------
\* GET /session/status
SessionStatus ==
    /\ resp' = [svc |-> "gw", ep |-> "/session/status", status |-> 200, error |-> "",
                body |-> [strs |-> {"ready"}, toks |-> {}], ready |-> hasAnyReadySession]
    /\ UNCHANGED <<now, EXPECTED_AUD, CLIENTS, delegations, sqlite_sequence, ORDERS, SESSION, sess, nextSid, start, cb,
                   mcp, AUTHZ, nextCode, tok, mintCount, ttlExpired>>

\* the fields of a session that GET /demo prints
DemoView_WithToken(o) ==
    [strs |-> {o.toolId, o.audience} \cup Range(o.scope),
     toks |-> IF o.access_token = NoToken THEN {} ELSE {o.access_token}]
DemoView(o) ==
    [strs |-> {o.toolId, o.audience} \cup Range(o.scope), toks |-> {}]

\* GET /demo
Demo ==
    /\ resp' = GwResp("/demo", 200, "",
                      [strs |-> UNION {DemoView(sess[s]).strs : s \in SESSION},
                       toks |-> UNION {DemoView(sess[s]).toks : s \in SESSION}])
    /\ UNCHANGED <<now, EXPECTED_AUD, CLIENTS, delegations, sqlite_sequence, ORDERS, SESSION, sess, nextSid, start, cb,
                   mcp, AUTHZ, nextCode, tok, mintCount, ttlExpired>>

\* GET /consent?sid= and POST /consent/approve (redirect to the session's authorize URL)
Consent(ep, s) ==
    /\ ep \in {"/consent", "/consent/approve"}
    /\ resp' = IF s \notin SESSION
               THEN GwResp(ep, 404, "Session not found", EmptyBody)
               ELSE GwResp(ep, IF ep = "/consent" THEN 200 ELSE 302, "",
                           [strs |-> {sess[s].toolId, sess[s].audience} \cup Range(sess[s].scope),
                            toks |-> {}])
    /\ UNCHANGED <<now, EXPECTED_AUD, CLIENTS, delegations, sqlite_sequence, ORDERS, SESSION, sess, nextSid, start, cb,
                   mcp, AUTHZ, nextCode, tok, mintCount, ttlExpired>>

\* POST /debug/session/reset
DebugReset ==
    /\ SESSION' = {}
    /\ resp' = GwResp("/debug/session/reset", 200, "", EmptyBody)
    /\ UNCHANGED <<now, EXPECTED_AUD, CLIENTS, delegations, sqlite_sequence, ORDERS, sess, nextSid, start, cb,
                   mcp, AUTHZ, nextCode, tok, mintCount, ttlExpired>>

\* the clock
Tick ==
    /\ now + TickMs <= MaxTicks * TickMs
    /\ now' = now + TickMs
    /\ resp' = NoResp
    /\ UNCHANGED <<EXPECTED_AUD, CLIENTS, delegations, sqlite_sequence, ORDERS, SESSION, sess, nextSid, start, cb,
                   mcp, AUTHZ, nextCode, tok, mintCount, ttlExpired>>

\* ------------------------------------------------------------------
\* AS: GET /authorize, as a handler
\* ------------------------------------------------------------------
AuthorizeGet(q) ==
    /\ Authorize(q)
    /\ UNCHANGED <<now, EXPECTED_AUD, CLIENTS, delegations, sqlite_sequence, ORDERS, SESSION, sess, nextSid, start, cb,
                   mcp, tok, mintCount, ttlExpired>>

\* ------------------------------------------------------------------
\* Initial state and inputs
\* ------------------------------------------------------------------
vars == <<now, EXPECTED_AUD, CLIENTS, delegations, sqlite_sequence, ORDERS, SESSION, sess, nextSid, start, cb, mcp,
          AUTHZ, nextCode, tok, mintCount, ttlExpired, resp>>

ToolIds == {"mcp.echo", "tickets.list", "payments.charge"}

\* a store seeded with one delegation of user-123 to agent-demo
SeededDelegations ==
    {[id |-> 1, subject |-> "user-123", agentId |-> "agent-demo", toolId |-> "payments.charge",
      scopes |-> JsonText(<< <<"payments:charge">> >>), not_after |-> 100 * TickMs,
      issuer |-> "", jws |-> "dc-seed", inserted_at |-> 1000,
      constraints |-> JsonText([has_max |-> TRUE, max_amount_cents |-> 2000,
                                has_merchants |-> TRUE, merchants |-> <<"mcp-tix">>])]}

\* const ORDERS = new Map([["order-1001", {amount_cents: 1200, status: "created", ...}]])
InitialOrders ==
    [o \in {"order-1001"} |-> [amount_cents |-> 1200, merchant_id |-> "mcp-tix",
                               status |-> "created"]]

InitCommon ==
    /\ now = TickMs
    /\ CLIENTS = DemoClients
    /\ ORDERS = InitialOrders
    /\ SESSION = {}
    /\ sess = [s \in Sids |-> NoSession]
    /\ nextSid = 1
    /\ start = IdleStart
    /\ cb = [k \in 1..MaxCb |-> IdleCb]
    /\ mcp = [k \in 1..MaxMcp |-> IdleMcp]
    /\ AUTHZ = [c \in Codes |-> NoEntry]
    /\ nextCode = 1
    /\ tok = [k \in 1..MaxTok |-> IdleTok]
    /\ mintCount = [c \in Codes |-> 0]
    /\ ttlExpired = [s \in Sids |-> 0]
    /\ resp = NoResp

Ctx(orderId, amount_cents, merchant) ==
    [orderId |-> orderId, amount_cents |-> amount_cents, amount_kind |-> "number",
     merchant |-> merchant]

\* the bodies the agent posts to /session/start
StartInputs ==
    {[toolId |-> "mcp.echo", scope |-> <<"echo:read">>, context |-> NoContext],
     [toolId |-> "tickets.list", scope |-> <<"tickets:read">>, context |-> NoContext],
     [toolId |-> "payments.charge", scope |-> <<"payments:charge">>,
      context |-> Ctx("order-1001", 1200, "mcp-tix")],
     [toolId |-> "payments.charge", scope |-> <<"payments:charge">>,
      context |-> Ctx("order-1001", 3000, "mcp-tix")]}

\* the bodies the agent posts to /mcp/pay
PayInputs ==
    {[NoReq EXCEPT !.orderId = "order-1001", !.amount_cents = 1200, !.merchant_id = "mcp-tix"],
     [NoReq EXCEPT !.orderId = "order-1001", !.amount_cents = 3000, !.merchant_id = "mcp-tix"],
     [NoReq EXCEPT !.orderId = "order-1001", !.amount_cents = 1200, !.merchant_id = "evil-shop"],
     [NoReq EXCEPT !.orderId = "order-2002", !.amount_cents = 1200, !.merchant_id = "mcp-tix"],
     [NoReq EXCEPT !.amount_cents = 1200, !.merchant_id = "mcp-tix"]}

Created == 1..(nextSid - 1)

\* the authorize requests a browser or another client sends to the AS about session o:
\* the authorize URL itself and variations of one parameter
AuthorizeQueriesOf(o) ==
    LET u == AuthorizeUrl(o) IN
    {u,
     [u EXCEPT !.scope = <<"payments:charge">>],
     [u EXCEPT !.resource = <<>>],
     [u EXCEPT !.resource = <<"other-rs">>],
     [u EXCEPT !.response_type = "token"],
     [u EXCEPT !.client_id = "nobody"],
     [u EXCEPT !.redirect_uri = "http://evil.example/cb"],
     [u EXCEPT !.code_challenge_method = "plain"]}

\* the state parameters presented to the callback about session o: the signed state,
\* states re-signed under the (default, public) secret, and broken ones
CallbackStatesOf(o) ==
    LET p == o.state.p
        Resign(q) == [p |-> q, sig |-> Hmac(SECRET, q)]
    IN {o.state,
        Resign([p EXCEPT !.aud = "other-rs"]),
        Resign([p EXCEPT !.scope = <<"payments:charge">>]),
        Resign([p EXCEPT !.sid = MaxSessions + 1]),
        Resign([p EXCEPT !.enc = "garbage"]),
        [p |-> [p EXCEPT !.aud = "other-rs"], sig |-> o.state.sig],
        [p |-> p, sig |-> Hmac("guess", p)],
        [p |-> p, sig |-> ShortSig],
        [p |-> p, sig |-> NoSig]}

\* Tighter bounds of the focused specifications: the sessions started (SpecProxy), the
\* codes issued (SpecAS, SpecCallback, SpecProxy, SpecGateway) and the callbacks in
\* flight (SpecCallback). SpecProxy and SpecGateway take one callback at a time.
MaxLoginSessions == 1
MaxLoginCodes == 1
MaxLoginCb == 1

\* the /oauth/callback requests between their first and last step
InFlightCb == Cardinality({k \in 1..MaxCb : cb[k].pc # "idle"})

\* ------------------------------------------------------------------
\* SpecAS: the Authorization Server and its clients
\* ------------------------------------------------------------------
InitAS ==
    /\ InitCommon
    /\ EXPECTED_AUD = "mcp-demo"
    /\ delegations = SeededDelegations
    /\ sqlite_sequence = 1

\* GET /authorize queries of arbitrary clients
ASQueries ==
    [response_type : {"code", "token"},
     client_id : {"demo-client", "nobody"},
     redirect_uri : {GW_CALLBACK, AGENT_CALLBACK, "http://evil.example/cb"},
     scope : {<<"echo:read">>, <<"payments:charge">>},
     state : {NoState},
     code_challenge : {NoChallenge, Sha256(1)},
     code_challenge_method : {"S256", "plain"},
     resource : {<<>>, <<"rs-2">>, <<"other-rs">>}]

\* POST /token bodies of arbitrary clients
ASTokenBodies ==
    [grant_type : {"authorization_code", "refresh_token"},
     code : Codes,
     redirect_uri : {GW_CALLBACK, AGENT_CALLBACK},
     client_id : {"demo-client", "nobody"},
     code_verifier : {0, 1},
     resource : {<<>>, <<"rs-2">>}]

NextAS ==
    \/ /\ nextCode <= MaxLoginCodes
       /\ \E q \in ASQueries : AuthorizeGet(q)
    \/ \E b \in ASTokenBodies : TokenPost(b)
    \/ \E k \in 1..MaxTok : TokenSign(k)

SpecAS == InitAS /\ [][NextAS]_vars

\* ------------------------------------------------------------------
\* SpecToken: code redemption at the AS for well-formed authorization requests
\* ------------------------------------------------------------------
\* GET /authorize queries of the demo client that the AS accepts
TokenQueries ==
    [response_type : {"code"},
     client_id : {"demo-client"},
     redirect_uri : {GW_CALLBACK, AGENT_CALLBACK},
     scope : {<<"echo:read">>, <<"payments:charge">>},
     state : {NoState},
     code_challenge : {Sha256(1)},
     code_challenge_method : {"S256"},
     resource : {<<>>, <<"rs-2">>}]

NextToken ==
    \/ /\ nextCode <= MaxLoginCodes
       /\ \E q \in TokenQueries : AuthorizeGet(q)
    \/ \E b \in ASTokenBodies : TokenPost(b)
    \/ \E k \in 1..MaxTok : TokenSign(k)

SpecToken == InitAS /\ [][NextToken]_vars

\* ------------------------------------------------------------------
\* SpecRegister: dynamic client registration and /authorize
\* ------------------------------------------------------------------
\* POST /register bodies: redirect_uris missing, empty, and two arrays
RegisterBodies ==
    {[isArray |-> FALSE, redirect_uris |-> {}],
     [isArray |-> TRUE, redirect_uris |-> {}],
     [isArray |-> TRUE, redirect_uris |-> {"http://evil.example/cb"}],
     [isArray |-> TRUE, redirect_uris |-> {"http://app.example/cb", GW_CALLBACK}]}

\* GET /authorize queries naming the demo client, a registered client and nobody
RegisterQueries ==
    [response_type : {"code", "token"},
     client_id : {"demo-client", "client-01", "nobody"},
     redirect_uri : {GW_CALLBACK, "http://evil.example/cb"},
     scope : {<<"echo:read">>, <<"payments:charge">>},
     state : {NoState},
     code_challenge : {NoChallenge, Sha256(1)},
     code_challenge_method : {"S256", "plain"},
     resource : {<<>>}]

NextRegister ==
    \/ \E body \in RegisterBodies : Register(body)
    \/ /\ nextCode <= MaxCodes
       /\ \E q \in RegisterQueries : AuthorizeGet(q)

SpecRegister == InitAS /\ [][NextRegister]_vars

\* ------------------------------------------------------------------
\* SpecCallback: the login of one session through the gateway (start, authorize,
\* callback, token exchange), with forged and replayed callbacks
\* ------------------------------------------------------------------
InitCallback ==
    /\ InitCommon
    /\ EXPECTED_AUD = "rs-2"
    /\ delegations = SeededDelegations
    /\ sqlite_sequence = 1

NextCallback ==
    \/ /\ SESSION = {} /\ nextSid = 1
       /\ \E i \in StartInputs, ok \in BOOLEAN : StartBegin(i.toolId, i.scope, i.context, ok)
    \/ StartInsert
    \/ \E ok \in BOOLEAN : StartRespond(ok)
    \/ /\ nextCode <= MaxLoginCodes
       /\ \E s \in Created : \E q \in AuthorizeQueriesOf(sess[s]) : AuthorizeGet(q)
    \/ /\ InFlightCb < MaxLoginCb
       /\ \E s \in Created : \E st \in CallbackStatesOf(sess[s]) :
             \E code \in {c \in Codes : c <= nextCode}, error \in {"", "access_denied"} :
                CallbackBegin(code, st, error)
    \/ \E k \in 1..MaxCb : CallbackFetchFails(k)
    \/ \E k \in 1..MaxCb : TokenPostGw(k)
    \/ \E k \in 1..MaxTok : TokenSign(k)
    \/ \E k \in 1..MaxCb : CallbackFinish(k)

SpecCallback == InitCallback /\ [][NextCallback]_vars

\* ------------------------------------------------------------------
\* SpecProxy: the agent logs in through the gateway and calls the tools
\* ------------------------------------------------------------------
InitProxy ==
    /\ InitCommon
    /\ EXPECTED_AUD = "mcp-demo"
    /\ delegations = SeededDelegations
    /\ sqlite_sequence = 1

\* the bodies the agent posts to /session/start in this specification
ProxyStartInputs == {i \in StartInputs : i.toolId # "tickets.list" /\ i.context.amount_cents # 3000}

\* the query of GET /mcp/echo
EchoReq == [NoReq EXCEPT !.msg = "hello"]

NextProxy ==
    \/ /\ nextSid <= MaxLoginSessions
       /\ \E i \in ProxyStartInputs : StartBegin(i.toolId, i.scope, i.context, TRUE)
    \/ StartInsert
    \/ StartRespond(TRUE)
    \/ /\ nextCode <= MaxLoginCodes
       /\ \E s \in Created : AuthorizeGet(AuthorizeUrl(sess[s]))
    \/ /\ InFlightCb = 0
       /\ \E s \in Created : \E code \in 1..(nextCode - 1) :
             CallbackBegin(code, sess[s].state, "")
    \/ \E k \in 1..MaxCb : TokenPostGw(k)
    \/ \E k \in 1..MaxTok : TokenSign(k)
    \/ \E k \in 1..MaxCb : CallbackFinish(k)
    \/ \E tool \in {"echo", "tickets"} : McpGet(tool, EchoReq)
    \/ \E req \in PayInputs : McpPay(req)
    \/ \E k \in 1..MaxMcp : RSHandle(k)
    \/ \E k \in 1..MaxMcp : UpstreamFail(k)
    \/ \E k \in 1..MaxMcp : McpFinish(k)

SpecProxy == InitProxy /\ [][NextProxy]_vars

\* ------------------------------------------------------------------
\* SpecRS: the Resource Server under clients presenting arbitrary bearer tokens
\* ------------------------------------------------------------------
\* tokens the AS can have signed so far (any scope, any audience, signed at any past
\* value of the clock), a token of another issuer, and no token at all
RSBearers ==
    {NoToken}
    \cup {[iss |-> ISSUER, sub |-> "user-123", scope |-> sc, aud |-> a,
           iat |-> t, exp |-> t + TOKEN_LIFETIME_SEC] :
            sc \in {<<"echo:read">>, <<"tickets:read">>, <<"payments:charge">>,
                    <<"echo:read", "payments:charge">>},
            a \in {"mcp-demo", "other-rs"},
            t \in {n * (TickMs \div 1000) : n \in 1..(now \div TickMs)}}
    \cup {[iss |-> "http://evil.example", sub |-> "user-123", scope |-> <<"payments:charge">>,
           aud |-> "mcp-demo", iat |-> nowSec, exp |-> nowSec + TOKEN_LIFETIME_SEC]}

RSRequests ==
    {EchoReq, [NoReq EXCEPT !.orderId = "order-1001"], [NoReq EXCEPT !.orderId = "order-2002"]}

NextRS ==
    \/ \E tool \in {"echo", "tickets", "pay"}, bearer \in RSBearers, req \in RSRequests :
          RSRequest(tool, bearer, req)
    \/ Tick

SpecRS == InitProxy /\ [][NextRS]_vars

\* ------------------------------------------------------------------
\* SpecTtl: one login session, its tool calls, and the clock
\* ------------------------------------------------------------------
NextTtl ==
    \/ /\ SESSION = {} /\ nextSid = 1
       /\ \E i \in ProxyStartInputs : StartBegin(i.toolId, i.scope, i.context, TRUE)
    \/ StartInsert
    \/ StartRespond(TRUE)
    \/ \E s \in Created : AuthorizeGet(AuthorizeUrl(sess[s]))
    \/ \E s \in Created : \E code \in 1..(nextCode - 1) : CallbackBegin(code, sess[s].state, "")
    \/ \E k \in 1..MaxCb : TokenPostGw(k)
    \/ \E k \in 1..MaxTok : TokenSign(k)
    \/ \E k \in 1..MaxCb : CallbackFinish(k)
    \/ \E tool \in {"echo", "tickets"} : McpGet(tool, EchoReq)
    \/ \E req \in PayInputs : McpPay(req)
    \/ \E k \in 1..MaxMcp : RSHandle(k)
    \/ \E k \in 1..MaxMcp : UpstreamFail(k)
    \/ \E k \in 1..MaxMcp : McpFinish(k)
    \/ Tick

SpecTtl == InitProxy /\ [][NextTtl]_vars

\* ------------------------------------------------------------------
\* SpecUpstream: one session, its tool calls and the answers of the RS while the
\* session's token runs out
\* ------------------------------------------------------------------
NextUpstream ==
    \/ /\ SESSION = {} /\ nextSid = 1
       /\ \E i \in ProxyStartInputs : StartBegin(i.toolId, i.scope, i.context, TRUE)
    \/ StartInsert
    \/ StartRespond(TRUE)
    \/ /\ nextCode <= MaxLoginCodes
       /\ \E s \in Created : AuthorizeGet(AuthorizeUrl(sess[s]))
    \/ /\ InFlightCb = 0
       /\ \E s \in Created : \E code \in 1..(nextCode - 1) :
             CallbackBegin(code, sess[s].state, "")
    \/ \E k \in 1..MaxCb : TokenPostGw(k)
    \/ \E k \in 1..MaxTok : TokenSign(k)
    \/ \E k \in 1..MaxCb : CallbackFinish(k)
    \/ \E tool \in {"echo", "tickets"} : McpGet(tool, EchoReq)
    \/ \E req \in PayInputs : McpPay(req)
    \/ \E k \in 1..MaxMcp : RSHandle(k)
    \/ \E k \in 1..MaxMcp : UpstreamFail(k)
    \/ \E k \in 1..MaxMcp : McpFinish(k)
    \/ Tick

SpecUpstream == InitProxy /\ [][NextUpstream]_vars

\* ------------------------------------------------------------------
\* SpecGateway: every endpoint of the gateway around one login
\* ------------------------------------------------------------------
TicketsStart == [toolId |-> "tickets.list", scope |-> <<"tickets:read">>, context |-> NoContext]

\* the state parameters presented to the callback in this specification
GatewayCallbackStatesOf(o) ==
    {o.state, [p |-> o.state.p, sig |-> Hmac("guess", o.state.p)], [p |-> o.state.p, sig |-> ShortSig]}

NextGateway ==
    \/ /\ SESSION = {} /\ nextSid = 1
       /\ \E i \in StartInputs \ {TicketsStart}, ok \in BOOLEAN :
             StartBegin(i.toolId, i.scope, i.context, ok)
    \/ StartInsert
    \/ \E ok \in BOOLEAN : StartRespond(ok)
    \/ \E ep \in {"/consent", "/consent/approve"} : Consent(ep, 1)
    \/ /\ nextCode <= MaxLoginCodes
       /\ \E s \in Created : AuthorizeGet(AuthorizeUrl(sess[s]))
    \/ /\ InFlightCb = 0
       /\ \E s \in Created : \E st \in GatewayCallbackStatesOf(sess[s]) :
             CallbackBegin(nextCode - 1, st, "")
    \/ /\ InFlightCb = 0
       /\ \E s \in Created : CallbackBegin(NoCode, sess[s].state, "access_denied")
    \/ \E k \in 1..MaxCb : CallbackFetchFails(k)
    \/ \E k \in 1..MaxCb : TokenPostGw(k)
    \/ \E k \in 1..MaxTok : TokenSign(k)
    \/ \E k \in 1..MaxCb : CallbackFinish(k)
    \/ \E tool \in {"echo", "tickets"} : McpGet(tool, EchoReq)
    \/ \E req \in PayInputs : McpPay(req)
    \/ \E k \in 1..MaxMcp : RSHandle(k)
    \/ \E k \in 1..MaxMcp : UpstreamFail(k)
    \/ \E k \in 1..MaxMcp : McpFinish(k)
    \/ SessionStatus
    \/ Demo
    \/ DebugReset
    \/ Tick

SpecGateway == InitProxy /\ [][NextGateway]_vars

\* ------------------------------------------------------------------
\* SpecADP: the delegation store and /evaluate of the ADP under arbitrary clients
\* ------------------------------------------------------------------
\* the largest row id given out
MaxRowId == 2
MaxAdpTicks == 1

InitADP ==
    /\ InitCommon
    /\ EXPECTED_AUD = "mcp-demo"
    /\ delegations = {}
    /\ sqlite_sequence = 0

Credential(jws, toolId, scopes, not_after, exp, constraints) ==
    [jws |-> jws, public_jwk |-> TRUE, verifies |-> TRUE,
     payload |-> [subject |-> "user-123", agentId |-> "agent-demo", toolId |-> toolId,
                  scopes |-> scopes, not_after |-> not_after, exp |-> exp, iss |-> "issuer-1",
                  constraints |-> constraints]]

\* a payload without constraints
NoConstraintsGiven ==
    [kind |-> "undefined", has_max |-> FALSE, max_amount_cents |-> 0,
     has_merchants |-> FALSE, merchants |-> <<>>]

CapAndMerchants ==
    [kind |-> "object", has_max |-> TRUE, max_amount_cents |-> 2000,
     has_merchants |-> TRUE, merchants |-> <<"mcp-tix">>]

\* credentials that POST /delegations accepts: two for payments.charge (the second with
\* other scopes, an expiry one tick ahead taken from exp, and no constraints), one without
\* scopes, one for another tool
GoodCredentials ==
    {Credential("dc-1", "payments.charge", << <<"payments:charge">> >>, 100 * TickMs, -1,
                CapAndMerchants),
     Credential("dc-2", "payments.charge", << <<"payments:charge">>, <<"tickets:read">> >>,
                -1, 1500, NoConstraintsGiven),
     Credential("dc-3", "payments.charge", <<>>, 100 * TickMs, -1, NoConstraintsGiven),
     Credential("dc-4", "mcp.echo", << <<"echo:read">> >>, 100 * TickMs, -1,
                NoConstraintsGiven),
     Credential("dc-5", "payments.charge", <<Spaces, <<"payments:charge">> >>, 100 * TickMs,
                -1, NoConstraintsGiven)}

\* requests that POST /delegations refuses, one for each 400 answer
BadCredentials ==
    LET c == Credential("dc-5", "payments.charge", << <<"payments:charge">> >>,
                        100 * TickMs, -1, NoConstraintsGiven)
    IN {[c EXCEPT !.jws = ""],
        [c EXCEPT !.verifies = FALSE],
        [c EXCEPT !.payload.scopes = << <<>> >>],
        [c EXCEPT !.payload.not_after = -1],
        [c EXCEPT !.payload.not_after = 1],
        [c EXCEPT !.payload.constraints = [NoConstraintsGiven EXCEPT !.kind = "invalid"]],
        [c EXCEPT !.payload.constraints = [CapAndMerchants EXCEPT !.max_amount_cents = 0]]}

AdpCredentials == GoodCredentials \cup BadCredentials

\* the keys DELETE /delegations is called with; the last one lacks its toolId
DeleteKeys ==
    {[subject |-> "user-123", agentId |-> "agent-demo", toolId |-> "payments.charge"],
     [subject |-> "user-123", agentId |-> "agent-demo", toolId |-> "mcp.echo"],
     [subject |-> "user-123", agentId |-> "agent-demo", toolId |-> ""]}

\* POST /evaluate bodies
EvaluateRequest(toolId, requested_scopes, context) ==
    [subject |-> "", agentId |-> "agent-demo", toolId |-> toolId,
     requested_scopes |-> requested_scopes, context |-> context]

\* requests that differ in their scopes, and requests that differ in their context
EvaluateInputs ==
    {EvaluateRequest("payments.charge", q, NoContext) :
        q \in {<< <<"payments:charge">> >>,
               << <<"tickets:read">>, <<>>, <<"payments:charge">>, <<"tickets:read">> >>,
               << <<"echo:read">> >>,
               <<Spaces, <<"payments:charge">> >>}}
    \cup {EvaluateRequest("payments.charge", << <<"payments:charge">> >>, c) :
             c \in {Ctx("order-1001", 3000, "mcp-tix"),
                    Ctx("order-1001", 1200, "mcp-tix"),
                    Ctx("order-1001", 1200, "evil-shop"),
                    [Ctx("", 2000, "mcp-tix") EXCEPT !.amount_kind = "fraction"]}}
    \cup {EvaluateRequest("mcp.echo", << <<"echo:read">> >>, NoContext)}

ConsentInputs ==
    [subject : {""},
     agentId : {"agent-demo"},
     toolId : {"payments.charge"},
     scopes : {<<>>, << <<"payments:charge">> >>,
               << <<"payments:charge">>, <<"tickets:read">> >>,
               << <<>>, <<"echo:read">> >>},
     explicit : BOOLEAN]

NextADP ==
    \/ \E c \in ConsentInputs : ConsentPost(c)
    \/ \E d \in AdpCredentials, saved \in BOOLEAN :
          /\ (DelegationError(d) = "" /\ selectKey(d.payload.subject, d.payload.agentId,
                                                  d.payload.toolId) = {})
             => sqlite_sequence < MaxRowId
          /\ DelegationsPost(d, saved)
    \/ DelegationsGet
    \/ \E key \in DeleteKeys : DelegationsDelete(key.subject, key.agentId, key.toolId)
    \/ \E e \in EvaluateInputs : EvaluatePost(e)
    \/ now < (1 + MaxAdpTicks) * TickMs /\ Tick

SpecADP == InitADP /\ [][NextADP]_vars

\* ------------------------------------------------------------------
\* SpecPay: payments.charge sessions under the obligations of their delegation, and the
\* /mcp/pay requests of the agent
\* ------------------------------------------------------------------
\* a credential that replaces the seeded delegation: same cap, an empty merchants list
EmptyMerchantsCredential ==
    [jws |-> "dc-empty-merchants", public_jwk |-> TRUE, verifies |-> TRUE,
     payload |-> [subject |-> "user-123", agentId |-> "agent-demo",
                  toolId |-> "payments.charge", scopes |-> << <<"payments:charge">> >>,
                  not_after |-> 100 * TickMs, exp |-> -1, iss |-> "",
                  constraints |-> [kind |-> "object", has_max |-> TRUE,
                                   max_amount_cents |-> 2000,
                                   has_merchants |-> TRUE, merchants |-> <<>>]]]

\* POST /session/start bodies for payments.charge: the agent's context, and one that
\* names the order only
PayStartInputs ==
    {[toolId |-> "payments.charge", scope |-> <<"payments:charge">>,
      context |-> Ctx("order-1001", 1200, "mcp-tix")],
     [toolId |-> "payments.charge", scope |-> <<"payments:charge">>,
      context |-> Ctx("order-1001", -1, "")]}

\* the bodies posted to /mcp/pay: PayInputs, and bodies whose amount_cents is a numeric
\* string, whose amount_cents is missing, whose merchant_id is missing
PayRequests ==
    PayInputs \cup
    {[NoReq EXCEPT !.orderId = "order-1001", !.amount_cents = 3000,
                   !.amount_is_integer = FALSE, !.merchant_id = "mcp-tix"],
     [NoReq EXCEPT !.orderId = "order-1001", !.merchant_id = "mcp-tix"],
     [NoReq EXCEPT !.orderId = "order-1001", !.amount_cents = 1200]}

NextPay ==
    \/ DelegationsPost(EmptyMerchantsCredential, TRUE)
    \/ /\ SESSION = {} /\ nextSid = 1
       /\ \E i \in PayStartInputs : StartBegin(i.toolId, i.scope, i.context, TRUE)
    \/ StartInsert
    \/ StartRespond(TRUE)
    \/ /\ nextCode <= MaxLoginCodes
       /\ \E s \in Created : AuthorizeGet(AuthorizeUrl(sess[s]))
    \/ /\ InFlightCb = 0
       /\ \E s \in Created : \E code \in 1..(nextCode - 1) :
             CallbackBegin(code, sess[s].state, "")
    \/ \E k \in 1..MaxCb : TokenPostGw(k)
    \/ \E k \in 1..MaxTok : TokenSign(k)
    \/ \E k \in 1..MaxCb : CallbackFinish(k)
    \/ \E req \in PayRequests : McpPay(req)
    \/ \E k \in 1..MaxMcp : RSHandle(k)
    \/ \E k \in 1..MaxMcp : UpstreamFail(k)
    \/ \E k \in 1..MaxMcp : McpFinish(k)

SpecPay == InitProxy /\ [][NextPay]_vars

\* ==================================================================
\* Properties
\* ==================================================================

\* C2 as stated: once POST /token has succeeded for a code, every later POST /token
\* presenting that code is answered 400 invalid_grant, whatever its other parameters.
C2_ReplayAlwaysInvalidGrant ==
    (resp.ep = "token" /\ resp.replay) =>
        (resp.status = 400 /\ resp.error = "invalid_grant")

\* C2 amended: once POST /token has succeeded for a code, every later POST /token
\* presenting that code is answered 400 and mints no token; the error is invalid_grant
\* when grant_type is authorization_code and unsupported_grant_type otherwise.
C2_ReplayRejected ==
    /\ (resp.ep = "token" /\ resp.replay) =>
          /\ resp.status = 400
          /\ resp.access_token = NoToken
          /\ resp.error = IF resp.grant_type = "authorization_code"
                          THEN "invalid_grant" ELSE "unsupported_grant_type"
    /\ \A k \in 1..MaxTok : tok[k].pc = "signing" => ~tok[k].replay

C2_Witness ==
    /\ resp.ep = "token" /\ resp.replay
    /\ resp.grant_type = "authorization_code" /\ resp.error = "invalid_grant"

\* C3: of the POST /token requests handled concurrently for one code, at most one
\* passes the lookup and receives an access token.
C3_AtMostOneRedemption ==
    \A c \in Codes :
        mintCount[c] + Cardinality({k \in 1..MaxTok : tok[k].pc = "signing" /\ tok[k].b.code = c}) <= 1

\* a second request for the code was refused while the first is suspended at sign()
C3_Witness ==
    /\ resp.ep = "token" /\ resp.status = 400
    /\ resp.error = "invalid_grant" /\ resp.error_description = ""
    /\ \E k \in 1..MaxTok : tok[k].pc = "signing" /\ tok[k].b.code = resp.code

\* C7: a minted token's aud equals the resource of the /authorize request when one was
\* supplied, and equals the resource of the /token request when one was supplied; it is
\* the default audience when neither request supplied one.
C7_AudEqualsEverySuppliedResource ==
    \A k \in 1..MaxTok : tok[k].pc = "signing" =>
        /\ tok[k].entry.resource # "" => tok[k].accessToken.aud = tok[k].entry.resource
        /\ pickResource(tok[k].b.resource) # "" =>
              tok[k].accessToken.aud = pickResource(tok[k].b.resource)
        /\ (tok[k].entry.resource = "" /\ pickResource(tok[k].b.resource) = "") =>
              tok[k].accessToken.aud = DEFAULT_AUDIENCE

\* C4: the gateway stores an access token in a session only through a callback whose
\* state carried a valid HMAC signature, whose sid names that existing session, and whose
\* aud and scope equal the session's stored audience and scope.
C4_TokenStoredOnlyByValidCallback ==
    [][\A s \in Sids :
          (sess'[s].access_token # sess[s].access_token /\ sess'[s].access_token # NoToken) =>
             \E k \in 1..MaxCb :
                /\ cb[k].pc = "responded" /\ cb'[k].pc = "idle"
                /\ cb[k].state.sig = Hmac(SECRET, cb[k].state.p)
                /\ cb[k].state.p.enc = "json"
                /\ cb[k].state.p.sid = s /\ s \in SESSION
                /\ cb[k].state.p.aud = sess[s].audience
                /\ cb[k].state.p.scope = sess[s].scope
                /\ sess'[s].access_token = cb[k].tokres.access_token]_vars

C4_Witness ==
    /\ resp.svc = "gw" /\ resp.ep = "/oauth/callback" /\ resp.status = 200
    /\ \E s \in SESSION : sess[s].ready /\ sess[s].access_token # NoToken

\* C5: once a session has used = true, a callback arriving with that session's state is
\* answered 400, changes no field of any session and starts no token exchange.
C5_UsedStateRejected ==
    [][\A s \in SESSION : sess[s].used =>
          \A code \in Codes, error \in {"", "access_denied"} :
             CallbackBegin(code, sess[s].state, error) =>
                /\ resp'.svc = "gw" /\ resp'.ep = "/oauth/callback" /\ resp'.status = 400
                /\ sess' = sess
                /\ cb' = cb /\ tok' = tok /\ AUTHZ' = AUTHZ]_vars

C5_Witness ==
    /\ resp.svc = "gw" /\ resp.ep = "/oauth/callback" /\ resp.status = 400
    /\ resp.error = "Session already completed"
    /\ \E s \in SESSION : sess[s].used

\* C6: for every access token held in a session, introspection reports an aud equal to
\* the session's audience, the resource sent in the authorize URL and the token request.
C6_HeldTokenAudIsSessionAudience ==
    \A s \in Sids : (sess[s].created /\ sess[s].access_token # NoToken) =>
        /\ sess[s].access_token.aud = sess[s].audience
        /\ Introspect(sess[s].access_token).active =>
              Introspect(sess[s].access_token).aud = sess[s].audience
        /\ AuthorizeUrl(sess[s]).resource = <<sess[s].audience>>
        /\ \A k \in 1..MaxCb : cb[k].pc # "idle" => cb[k].b.resource = <<sess[cb[k].sid].audience>>

C6_Witness ==
    \E s \in SESSION :
        /\ sess[s].access_token # NoToken
        /\ sess[s].audience = "rs-2"
        /\ Introspect(sess[s].access_token).active
        /\ Introspect(sess[s].access_token).aud = "rs-2"

\* a session that getSessionForScope may return for the scope
Eligible(requiredScope) ==
    {s \in SESSION : /\ sess[s].ready /\ sess[s].access_token # NoToken
                     /\ requiredScope \in Range(sess[s].scopesList)}

\* C1: every request forwarded by /mcp/echo, /mcp/tickets or /mcp/pay carries the token of a
\* ready session whose scope list contains the tool's scope; when there is no such session
\* the request is answered 401 login_required and nothing is forwarded.
C1_ForwardedOnlyForScopedReadySession ==
    [][/\ \A k \in 1..MaxMcp : (mcp[k].pc = "idle" /\ mcp'[k].pc = "forwarded") =>
            /\ mcp'[k].sid \in Eligible(RequiredScope(mcp'[k].tool))
            /\ mcp'[k].bearer = sess[mcp'[k].sid].access_token
       /\ \A tool \in {"echo", "tickets"} :
            (Eligible(RequiredScope(tool)) = {} /\ McpGet(tool, EchoReq)) =>
               (resp'.status = 401 /\ resp'.error = "login_required" /\ mcp' = mcp)
       /\ \A req \in PayInputs :
            (Eligible(RequiredScope("pay")) = {} /\ McpPay(req)) =>
               (resp'.status = 401 /\ resp'.error = "login_required" /\ mcp' = mcp)]_vars

\* a request is in flight for a ready session that has its scope, and a request for a
\* scope no ready session has was just answered 401 login_required
C1_Witness ==
    /\ resp.svc = "gw" /\ resp.status = 401 /\ resp.error = "login_required"
    /\ \E k \in 1..MaxMcp :
          /\ mcp[k].pc = "forwarded"
          /\ mcp[k].sid \in Eligible(RequiredScope(mcp[k].tool))

\* the obligation ttl of session s had elapsed at time t
TtlElapsed(s, t) ==
    /\ sess[s].obligations.ttl # -1
    /\ (t - sess[s].obligations_issued_at) \div 1000 > sess[s].obligations.ttl

\* C8: once the obligation ttl of a session has elapsed, no /mcp/echo, /mcp/tickets or
\* /mcp/pay request served by that session is forwarded and answered 200 by the RS.
C8_NothingServedAfterTtl ==
    \A k \in 1..MaxMcp :
        (mcp[k].pc = "answered" /\ mcp[k].up.status = 200) => ~TtlElapsed(mcp[k].sid, mcp[k].at)

\* C9: a /mcp/pay answered session_obligation_ttl_expired is a 401 that forwards nothing and
\* leaves the session not ready and without token; the session is never selected again, so
\* no later /mcp/pay is answered session_obligation_ttl_expired for it.
C9_TtlExpirySessionGoneForGood ==
    /\ (resp.svc = "gw" /\ resp.ep = "pay" /\ resp.error = "session_obligation_ttl_expired") =>
          /\ resp.status = 401
          /\ ~sess[resp.sid].ready /\ sess[resp.sid].access_token = NoToken
    /\ \A s \in Sids : ttlExpired[s] > 0 => s \notin listReadySessions
    /\ \A s \in Sids : ttlExpired[s] <= 1

\* C10: no response of the gateway outside /debug/* carries an access token in its body,
\* whether a token held by a session or any other.
C10_NoTokenInGatewayBodies ==
    (resp.svc = "gw" /\ resp.ep # "/debug/session/reset") => resp.body.toks = {}

\* GET /demo lists the sessions while one of them holds a token
C10_Witness ==
    /\ resp.svc = "gw" /\ resp.ep = "/demo" /\ resp.status = 200
    /\ \E s \in SESSION : sess[s].access_token # NoToken

\* the session POST /mcp/pay selects (0: none)
PaySession == getSessionForScope(RequiredScope("pay"))

\* req passes the checks that POST /mcp/pay makes before the amount cap
PassesBinding(o, req) ==
    /\ req.orderId # ""
    /\ o.obligations.bind_order # "" => req.orderId = o.obligations.bind_order

\* C11: for a session whose obligations contain max_amount_cents = M, a /mcp/pay request
\* is forwarded only if it carries an amount_cents <= M, and a request whose amount_cents
\* exceeds M (and that names the bound order) is answered 403 obligation_violation
\* "amount exceeds max" and is not forwarded.
C11_ForwardedOnlyWithinCap ==
    [][\A req \in PayRequests :
         (McpPay(req) /\ PaySession # 0 /\ sess[PaySession].obligations.max_amount_cents # -1)
         => LET o == sess[PaySession]
                M == o.obligations.max_amount_cents
            IN /\ mcp' # mcp => (req.amount_cents # -1 /\ req.amount_cents <= M)
               /\ (req.amount_cents > M /\ PassesBinding(o, req))
                    => /\ resp'.status = 403 /\ resp'.error = "obligation_violation"
                       /\ resp'.detail = "amount exceeds max"
                       /\ mcp' = mcp]_vars

\* C12: for a session whose obligations contain bind_order = B, a /mcp/pay request is
\* forwarded only if its orderId equals B, so every request in flight upstream names the
\* bound order; a request with another orderId is answered 403 obligation_violation
\* "orderId mismatch" and is not forwarded.
C12_ForwardedOnlyForBoundOrder ==
    [][/\ \A k \in 1..MaxMcp :
            (mcp'[k].tool = "pay" /\ sess'[mcp'[k].sid].obligations.bind_order # "")
            => mcp'[k].req.orderId = sess'[mcp'[k].sid].obligations.bind_order
       /\ \A req \in PayRequests :
            (/\ McpPay(req) /\ PaySession # 0
             /\ sess[PaySession].obligations.bind_order # ""
             /\ req.orderId \notin {"", sess[PaySession].obligations.bind_order})
            => /\ resp'.status = 403 /\ resp'.error = "obligation_violation"
               /\ resp'.detail = "orderId mismatch"
               /\ mcp' = mcp /\ sess' = sess]_vars

\* a request for another order was just refused while the session's token is still held
\* and the bound order was paid through it
C12_Witness ==
    /\ resp.svc = "gw" /\ resp.ep = "pay" /\ resp.status = 403
    /\ resp.detail = "orderId mismatch"
    /\ sess[resp.sid].obligations.bind_order = "order-1001"
    /\ sess[resp.sid].ready
    /\ ORDERS["order-1001"].status = "paid"

\* req passes the checks that POST /mcp/pay makes before the merchant allowlist
PassesCap(o, req) ==
    ~(/\ o.obligations.max_amount_cents # -1
      /\ req.amount_cents # -1 /\ req.amount_is_integer
      /\ req.amount_cents > o.obligations.max_amount_cents)

\* C13: for a session whose obligations contain a merchant_allowlist L, a /mcp/pay request
\* is forwarded only if its merchant_id is a member of L; a request whose merchant_id is
\* absent or not in L (and that passes the binding and amount checks) is answered 403
\* obligation_violation "merchant not allowed" and is not forwarded.
C13_ForwardedOnlyForAllowedMerchant ==
    [][\A req \in PayRequests :
         (McpPay(req) /\ PaySession # 0 /\ sess[PaySession].obligations.has_allowlist)
         => LET o == sess[PaySession]
                L == Range(o.obligations.merchant_allowlist)
            IN /\ mcp' # mcp => req.merchant_id \in L
               /\ (req.merchant_id \notin L /\ PassesBinding(o, req) /\ PassesCap(o, req))
                    => /\ resp'.status = 403 /\ resp'.error = "obligation_violation"
                       /\ resp'.detail = "merchant not allowed"
                       /\ mcp' = mcp]_vars

\* the predicate that C14 equates with ready
TokenUsedNotExpired(o) == o.access_token # NoToken /\ o.used /\ now < o.expires_at

\* C14: in every reachable gateway state, a session is ready if and only if it holds an
\* access token, is marked used and the current time is before expires_at; only such
\* sessions are selected to serve /mcp/* traffic.
C14_ReadyIffTokenUsedNotExpired ==
    /\ \A s \in SESSION : sess[s].ready <=> TokenUsedNotExpired(sess[s])
    /\ \A tool \in {"echo", "tickets", "pay"} :
          getSessionForScope(RequiredScope(tool)) # 0
          => TokenUsedNotExpired(sess[getSessionForScope(RequiredScope(tool))])

\* C16: when /evaluate answered allow=false for a POST /session/start, the gateway answers
\* 403 denied_by_policy without sid or authorize_url and creates no session and no signed
\* state, so every session, and with it every authorize URL that can reach the AS, comes
\* from a start that was allowed.
C16_DeniedStartCreatesNothing ==
    [][/\ (start.pc = "evaluated" /\ ~start.evalResp.allow /\ start' # start)
          => /\ resp'.svc = "gw" /\ resp'.ep = "/session/start"
             /\ resp'.status = 403 /\ resp'.error = "denied_by_policy"
             /\ resp'.body.strs \cap {"sid", "authorize_url"} = {}
             /\ UNCHANGED <<SESSION, sess, nextSid, AUTHZ, nextCode>>
       /\ \A s \in SESSION' \ SESSION :
             /\ start.pc = "evaluated" /\ start.evalResp.allow
             /\ sess'[s].obligations = start.evalResp.obligations]_vars

\* a start was just denied, and no session exists
C16_Witness ==
    /\ resp.svc = "gw" /\ resp.ep = "/session/start" /\ resp.status = 403
    /\ resp.error = "denied_by_policy"
    /\ SESSION = {} /\ nextSid = 1 /\ nextCode = 1

\* compact is an output of signState under SECRET
IsSignStateOutput(compact) ==
    compact.p.enc = "json" /\ compact.sig = Hmac(SECRET, compact.p)

\* C17: verifyState(signState(p)) is ok with the payload p; for every input that is not
\* an output of signState under the same secret, verifyState returns a failure whose err
\* is bad_signature, bad_payload or malformed_state.
C17_VerifyStateRoundTripAndRejects ==
    \A s \in Created :
       /\ LET p == [sid |-> s, aud |-> sess[s].audience, scope |-> sess[s].scope]
              v == verifyState(signState(p))
          IN v.ok /\ v.json.sid = p.sid /\ v.json.aud = p.aud /\ v.json.scope = p.scope
       /\ \A compact \in CallbackStatesOf(sess[s]) :
             ~IsSignStateOutput(compact)
             => /\ ~verifyState(compact).ok
                /\ verifyState(compact).err \in {"bad_signature", "bad_payload", "malformed_state"}

\* C15: when the RS answers 401 or 403 to a request forwarded for a session, the gateway
\* sets that session's ready to false, clears its access_token and answers 401
\* login_required; for every other upstream status, and for a transport failure (answered
\* 502 bad_gateway), no session changes and the upstream status is passed through.
C15_Upstream401ClearsSessionElseUnchanged ==
    [][\A k \in 1..MaxMcp :
         /\ (mcp[k].pc = "answered" /\ mcp'[k].pc = "idle")
            => IF mcp[k].up.status \in {401, 403}
               THEN /\ ~sess'[mcp[k].sid].ready
                    /\ sess'[mcp[k].sid].access_token = NoToken
                    /\ \A s \in Sids \ {mcp[k].sid} : sess'[s] = sess[s]
                    /\ resp'.svc = "gw" /\ resp'.ep = mcp[k].tool
                    /\ resp'.status = 401 /\ resp'.error = "login_required"
               ELSE /\ sess' = sess
                    /\ resp'.svc = "gw" /\ resp'.ep = mcp[k].tool
                    /\ resp'.status = mcp[k].up.status
                    /\ resp'.body = mcp[k].up.body
         /\ (mcp[k].pc = "forwarded" /\ mcp'[k].pc = "idle")
            => /\ sess' = sess
               /\ resp'.svc = "gw" /\ resp'.ep = mcp[k].tool
               /\ resp'.status = 502 /\ resp'.error = "bad_gateway"]_vars

\* the RS answered 401 to a request forwarded for a session that was ready with a token,
\* and the gateway has just cleared that session and answered 401 login_required
C15_Witness ==
    /\ resp.svc = "gw" /\ resp.status = 401 /\ resp.error = "login_required"
    /\ resp.sid \in SESSION
    /\ sess[resp.sid].used /\ ~sess[resp.sid].ready
    /\ sess[resp.sid].access_token = NoToken
    /\ ttlExpired[resp.sid] = 0

\* ------------------------------------------------------------------
\* The happy path: one echo:read session, the user follows the authorize URL, the agent
\* polls /session/status and calls /mcp/echo?msg=hi, and every service answers; the user
\* may look at /demo and at the consent page
\* ------------------------------------------------------------------
HiReq == [NoReq EXCEPT !.msg = "hi"]

LiveStart ==
    /\ SESSION = {} /\ nextSid = 1
    /\ StartBegin("mcp.echo", <<"echo:read">>, NoContext, TRUE)

\* the browser opens the authorize URL of the session
LiveAuthorize ==
    /\ nextCode <= MaxLoginCodes
    /\ \E s \in Created : AuthorizeGet(AuthorizeUrl(sess[s]))

\* the browser follows the redirect of the AS to the gateway callback
LiveCallback ==
    /\ InFlightCb = 0 /\ nextCode > 1
    /\ \E s \in Created : CallbackBegin(nextCode - 1, sess[s].state, "")

NextLive ==
    \/ LiveStart
    \/ StartInsert
    \/ StartRespond(TRUE)
    \/ LiveAuthorize
    \/ LiveCallback
    \/ \E k \in 1..MaxCb : TokenPostGw(k)
    \/ \E k \in 1..MaxTok : TokenSign(k)
    \/ \E k \in 1..MaxCb : CallbackFinish(k)
    \/ McpGet("echo", HiReq)
    \/ \E k \in 1..MaxMcp : RSHandle(k)
    \/ \E k \in 1..MaxMcp : McpFinish(k)
    \/ SessionStatus
    \/ Demo
    \/ \E ep \in {"/consent", "/consent/approve"} : Consent(ep, 1)

\* every handler step is eventually taken; the browser and the agent keep going
FairLive ==
    /\ WF_vars(StartInsert) /\ WF_vars(StartRespond(TRUE))
    /\ WF_vars(LiveAuthorize) /\ WF_vars(LiveCallback)
    /\ \A k \in 1..MaxCb : WF_vars(TokenPostGw(k)) /\ WF_vars(CallbackFinish(k))
    /\ \A k \in 1..MaxTok : WF_vars(TokenSign(k))
    /\ WF_vars(McpGet("echo", HiReq))
    /\ \A k \in 1..MaxMcp : WF_vars(RSHandle(k)) /\ WF_vars(McpFinish(k))
    /\ WF_vars(SessionStatus)

SpecLive == InitProxy /\ [][NextLive]_vars /\ FairLive

\* ------------------------------------------------------------------
\* /mcp/pay under the obligations of the seeded delegation (order, cap, merchants, ttl),
\* with requests that violate several obligations at once, while time passes
\* ------------------------------------------------------------------
OrderRequests ==
    PayInputs \cup
    {[NoReq EXCEPT !.orderId = "order-2002", !.amount_cents = 3000, !.merchant_id = "evil-shop"],
     [NoReq EXCEPT !.orderId = "order-1001", !.amount_cents = 3000, !.merchant_id = "evil-shop"]}

NextOblig ==
    \/ /\ SESSION = {} /\ nextSid = 1
       /\ StartBegin("payments.charge", <<"payments:charge">>,
                     Ctx("order-1001", 1200, "mcp-tix"), TRUE)
    \/ StartInsert
    \/ StartRespond(TRUE)
    \/ /\ nextCode <= MaxLoginCodes
       /\ \E s \in Created : AuthorizeGet(AuthorizeUrl(sess[s]))
    \/ /\ InFlightCb = 0
       /\ \E s \in Created : \E code \in 1..(nextCode - 1) :
             CallbackBegin(code, sess[s].state, "")
    \/ \E k \in 1..MaxCb : TokenPostGw(k)
    \/ \E k \in 1..MaxTok : TokenSign(k)
    \/ \E k \in 1..MaxCb : CallbackFinish(k)
    \/ \E req \in OrderRequests : McpPay(req)
    \/ \E k \in 1..MaxMcp : RSHandle(k)
    \/ \E k \in 1..MaxMcp : UpstreamFail(k)
    \/ \E k \in 1..MaxMcp : McpFinish(k)
    \/ Tick

SpecOblig == InitProxy /\ [][NextOblig]_vars

\* the key (subject, agentId, toolId) of a row and of a credential
KeyOf(r) == <<r.subject, r.agentId, r.toolId>>
PayloadKey(d) == <<d.payload.subject, d.payload.agentId, d.payload.toolId>>

\* C18: after any sequence of POST and DELETE /delegations the table holds at most one
\* row per (subject, agentId, toolId); an accepted POST for a key that exists adds no row
\* and replaces scopes, not_after, issuer, envelope (jws) and constraints of the row.
C18_OneDelegationPerKey ==
    [][/\ \A r \in delegations' : \A q \in delegations' : KeyOf(r) = KeyOf(q) => r = q
       /\ \A d \in AdpCredentials : \A saved \in BOOLEAN :
            (/\ resp'.ep = "POST /delegations"
             /\ DelegationError(d) = "" /\ DelegationsPost(d, saved)
             /\ \E r \in delegations : KeyOf(r) = PayloadKey(d))
            => /\ Cardinality(delegations') = Cardinality(delegations)
               /\ \E r \in delegations : \E q \in delegations' :
                     /\ KeyOf(r) = PayloadKey(d) /\ q.id = r.id /\ KeyOf(q) = KeyOf(r)
                     /\ q.scopes = JsonText(d.payload.scopes)
                     /\ q.not_after = ResolveNotAfter(d.payload)
                     /\ q.issuer = d.payload.iss /\ q.jws = d.jws
                     /\ q.constraints = ConstraintsJson(d.payload.constraints)]_vars

\* a POST for payments.charge was just accepted although its row (id 1) existed before
\* the mcp.echo row (id 2) was added: the row was replaced, the table has two rows
C18_Witness ==
    /\ resp.svc = "adp" /\ resp.ep = "POST /delegations" /\ resp.status = 201
    /\ resp.toolId = "payments.charge"
    /\ Cardinality(delegations) = 2 /\ sqlite_sequence = 2
    /\ \E r \in delegations : r.id = 1 /\ r.toolId = "payments.charge" /\ r.jws = "dc-2"

C20_ScopesAreRawIntersectionOrDelegated ==
    (resp.svc = "adp" /\ resp.ep = "/evaluate")
    => LET e == resp.req
           found == selectValid(IF e.subject = "" THEN "user-123" ELSE e.subject,
                                e.agentId, e.toolId)
       IN found # {}
          => LET row == CHOOSE r \in found : TRUE
                 delegated == Range(JsonParse(row.scopes))
                 requested == Range(e.requested_scopes)
             IN IF requested \cap delegated # {}
                THEN Range(resp.scopes) = requested \cap delegated
                ELSE /\ Range(resp.scopes) = delegated
                     /\ delegated = {} => ~resp.allow

\* ------------------------------------------------------------------
\* SpecRace: callbacks of one session racing each other and the tool requests
\* ------------------------------------------------------------------
\* the browser opens the authorize URL again (reload): a second code for the session
RaceAuthorize ==
    /\ nextCode <= MaxCodes
    /\ InFlightCb = 0 /\ \A s \in Created : ~sess[s].used
    /\ \E s \in Created : AuthorizeGet(AuthorizeUrl(sess[s]))

\* each redirect is followed once, while the callback of an earlier redirect of the
\* session may still be in flight
RaceCallback ==
    /\ InFlightCb < MaxCb
    /\ \E s \in Created : \E code \in 1..(nextCode - 1) :
          /\ \A k \in 1..MaxCb : cb[k].pc # "idle" => cb[k].code # code
          /\ CallbackBegin(code, sess[s].state, "")

\* time passes while a token response is on its way to the gateway
MaxRaceTicks == 1
RaceTick ==
    /\ now < (1 + MaxRaceTicks) * TickMs
    /\ \E k \in 1..MaxCb : cb[k].pc = "responded"
    /\ \A k \in 1..MaxTok : tok[k].pc = "idle"
    /\ \A k \in 1..MaxMcp : mcp[k].pc = "idle"
    /\ Tick

NextRace ==
    \/ LiveStart
    \/ StartInsert
    \/ StartRespond(TRUE)
    \/ RaceAuthorize
    \/ RaceCallback
    \/ \E k \in 1..MaxCb : TokenPostGw(k)
    \/ \E k \in 1..MaxTok : TokenSign(k)
    \/ \E k \in 1..MaxCb : CallbackFinish(k)
    \/ McpGet("echo", HiReq)
    \/ \E k \in 1..MaxMcp : RSHandle(k)
    \/ \E k \in 1..MaxMcp : McpFinish(k)
    \/ RaceTick

SpecRace == InitProxy /\ [][NextRace]_vars


\* ------------------------------------------------------------------
\* SpecAgent: the agent runs ensureSession and then the tool call, one tool after the
\* other, while the browser completes each login
\* ------------------------------------------------------------------
\* the response the agent has just received is the ready answer of its poll
PollSaysReady == resp.svc = "gw" /\ resp.ep = "/session/status" /\ resp.ready

\* the gateway tool behind a toolId of the agent
AgentTool(toolId) ==
    CASE toolId = "mcp.echo" -> "echo"
      [] toolId = "tickets.list" -> "tickets"
      [] OTHER -> "pay"

\* ensureSession({toolId, scope, context}): POST /session/start; the first call, and
\* the next one after the tool call of the previous one was answered
AgentEnsure ==
    /\ nextSid = 1 \/ (resp.svc = "gw" /\ resp.ep \in {"echo", "tickets", "pay"})
    /\ \E i \in ProxyStartInputs : StartBegin(i.toolId, i.scope, i.context, TRUE)

\* the poll of ensureSession: GET /session/status after the start was answered
AgentPoll ==
    /\ nextSid > 1 /\ start.pc = "idle"
    /\ \A k \in 1..MaxMcp : mcp[k].pc = "idle"
    /\ SessionStatus

\* ensureSession has returned on a ready poll: the tool call of the session just started
AgentCall ==
    /\ PollSaysReady
    /\ LET o == sess[nextSid - 1] IN
       IF AgentTool(o.toolId) = "pay"
       THEN McpPay([NoReq EXCEPT !.orderId = o.context.orderId,
                                 !.amount_cents = o.context.amount_cents,
                                 !.merchant_id = o.context.merchant])
       ELSE McpGet(AgentTool(o.toolId), EchoReq)

\* the browser opened by ensureSession follows the authorize URL of the new session
AgentBrowser ==
    \/ /\ nextCode <= MaxCodes /\ nextCode < nextSid /\ start.pc = "idle"
       /\ AuthorizeGet(AuthorizeUrl(sess[nextSid - 1]))
    \/ /\ InFlightCb = 0 /\ nextCode > 1
       /\ CallbackBegin(nextCode - 1, AUTHZ[nextCode - 1].state, "")

NextAgent ==
    \/ AgentEnsure
    \/ StartInsert
    \/ StartRespond(TRUE)
    \/ AgentBrowser
    \/ \E k \in 1..MaxCb : TokenPostGw(k)
    \/ \E k \in 1..MaxTok : TokenSign(k)
    \/ \E k \in 1..MaxCb : CallbackFinish(k)
    \/ AgentPoll
    \/ AgentCall
    \/ \E k \in 1..MaxMcp : RSHandle(k)
    \/ \E k \in 1..MaxMcp : McpFinish(k)

SpecAgent == InitProxy /\ [][NextAgent]_vars


\* ------------------------------------------------------------------
\* SpecScope: sessions started for a tool with a scope of the agent's choice
\* ------------------------------------------------------------------
\* the bodies posted to /session/start: the tool's own scope, and another scope
ScopeStartInputs ==
    {[toolId |-> "mcp.echo", scope |-> <<"echo:read">>, context |-> NoContext],
     [toolId |-> "payments.charge", scope |-> <<"payments:charge">>,
      context |-> Ctx("order-1001", 1200, "mcp-tix")],
     [toolId |-> "payments.charge", scope |-> <<"echo:read">>,
      context |-> Ctx("order-1001", 1200, "mcp-tix")]}

NextScope ==
    \/ /\ SESSION = {} /\ nextSid = 1
       /\ \E i \in ScopeStartInputs : StartBegin(i.toolId, i.scope, i.context, TRUE)
    \/ StartInsert
    \/ StartRespond(TRUE)
    \/ /\ nextCode <= MaxLoginCodes
       /\ \E s \in Created : AuthorizeGet(AuthorizeUrl(sess[s]))
    \/ /\ InFlightCb = 0
       /\ \E s \in Created : \E code \in 1..(nextCode - 1) :
             CallbackBegin(code, sess[s].state, "")
    \/ \E k \in 1..MaxCb : TokenPostGw(k)
    \/ \E k \in 1..MaxTok : TokenSign(k)
    \/ \E k \in 1..MaxCb : CallbackFinish(k)
    \/ \E tool \in {"echo", "tickets"} : McpGet(tool, EchoReq)
    \/ \E req \in PayInputs : McpPay(req)
    \/ \E k \in 1..MaxMcp : RSHandle(k)
    \/ \E k \in 1..MaxMcp : McpFinish(k)

SpecScope == InitProxy /\ [][NextScope]_vars


\* ------------------------------------------------------------------
\* SpecExpiry: /evaluate while a constrained delegation reaches its not_after
\* ------------------------------------------------------------------
\* credentials for payments.charge with a cap and a merchant list: one that expires within
\* the next tick of the clock, one that outlives every tick
ExpiringCredentials ==
    {Credential("dc-6", "payments.charge", << <<"payments:charge">> >>, 1500, -1,
                CapAndMerchants),
     Credential("dc-1", "payments.charge", << <<"payments:charge">> >>, 100 * TickMs, -1,
                CapAndMerchants)}

NextExpiry ==
    \/ \E d \in ExpiringCredentials, saved \in BOOLEAN :
          /\ selectKey(d.payload.subject, d.payload.agentId, d.payload.toolId) = {}
             => sqlite_sequence < MaxRowId
          /\ DelegationsPost(d, saved)
    \/ \E key \in DeleteKeys : DelegationsDelete(key.subject, key.agentId, key.toolId)
    \/ \E e \in EvaluateInputs : EvaluatePost(e)
    \/ now < (1 + MaxAdpTicks) * TickMs /\ Tick

SpecExpiry == InitADP /\ [][NextExpiry]_vars

\* ------------------------------------------------------------------
\* SpecCharge: orders created at the RS and paid through the gateway
\* ------------------------------------------------------------------
\* POST /orders bodies: a new order above the delegated cap, an id in use, no id
OrderBodies ==
    {[id |-> "order-2002", amount_cents |-> 5000, amount_is_integer |-> TRUE,
      merchant_id |-> "mcp-tix"],
     [id |-> "order-1001", amount_cents |-> 100, amount_is_integer |-> TRUE,
      merchant_id |-> "mcp-tix"],
     [id |-> "", amount_cents |-> 100, amount_is_integer |-> TRUE, merchant_id |-> "mcp-tix"]}

\* the contexts the agent states for its payment session
ChargeStartInputs ==
    {[toolId |-> "payments.charge", scope |-> <<"payments:charge">>,
      context |-> Ctx(id, 1200, "mcp-tix")] : id \in {"order-1001", "order-2002"}}

\* the bodies the agent posts to /mcp/pay: a stated amount under the cap, or none
ChargeRequests ==
    {[NoReq EXCEPT !.orderId = id, !.amount_cents = a, !.merchant_id = "mcp-tix"] :
        id \in {"order-1001", "order-2002"}, a \in {1200, -1}}

NextCharge ==
    \/ \E b \in OrderBodies : OrdersPost(b)
    \/ /\ SESSION = {} /\ nextSid = 1
       /\ \E i \in ChargeStartInputs : StartBegin(i.toolId, i.scope, i.context, TRUE)
    \/ StartInsert
    \/ StartRespond(TRUE)
    \/ /\ nextCode <= MaxLoginCodes
       /\ \E s \in Created : AuthorizeGet(AuthorizeUrl(sess[s]))
    \/ /\ InFlightCb = 0
       /\ \E s \in Created : \E code \in 1..(nextCode - 1) :
             CallbackBegin(code, sess[s].state, "")
    \/ \E k \in 1..MaxCb : TokenPostGw(k)
    \/ \E k \in 1..MaxTok : TokenSign(k)
    \/ \E k \in 1..MaxCb : CallbackFinish(k)
    \/ \E req \in ChargeRequests : McpPay(req)
    \/ \E k \in 1..MaxMcp : RSHandle(k)
    \/ \E k \in 1..MaxMcp : McpFinish(k)

SpecCharge == InitProxy /\ [][NextCharge]_vars


\* the non-expired delegation an /evaluate answer was computed from (none: {})
EvaluatedRow ==
    selectValid(IF resp.req.subject = "" THEN "user-123" ELSE resp.req.subject,
                resp.req.agentId, resp.req.toolId)

\* the number context.amount_cents is greater than M
AmountExceeds(context, M) ==
    /\ context.amount_cents # -1 /\ context.amount_kind # "string"
    /\ \/ context.amount_cents > M
       \/ context.amount_kind = "fraction" /\ context.amount_cents >= M

\* C21: when a non-expired delegation with constraints exists, /evaluate answers
\* allow = false whenever context.amount_cents is greater than constraints.max_amount_cents
\* and whenever context.merchant is not a member of constraints.merchants; a denied
\* answer carries no obligations.
C21_ConstraintViolationDenied ==
    (resp.svc = "adp" /\ resp.ep = "/evaluate" /\ EvaluatedRow # {})
    => LET row == CHOOSE r \in EvaluatedRow : TRUE
           C == JsonParse(row.constraints)
           context == resp.req.context
       IN /\ (C.has_max /\ AmountExceeds(context, C.max_amount_cents)) => ~resp.allow
          /\ (C.has_merchants /\ context.merchant # ""
                /\ context.merchant \notin Range(C.merchants)) => ~resp.allow
          /\ ~resp.allow => resp.obligations = NoObligations

C23_ConsentDecision ==
    [][\A c \in ConsentInputs :
          (resp'.ep = "/consent" /\ ConsentPost(c))
          => LET found == selectValid(IF c.subject = "" THEN "user-123" ELSE c.subject,
                                      c.agentId, c.toolId)
                 requested == {x \in Range(c.scopes) : x # <<>>}
                 covered == /\ found # {}
                            /\ requested \subseteq
                                  Range(JsonParse((CHOOSE r \in found : TRUE).scopes))
             IN /\ delegations' = delegations /\ sqlite_sequence' = sqlite_sequence
                /\ resp'.ep = "/consent" /\ resp'.status = 200
                /\ IF covered
                   THEN resp'.allow /\ resp'.record_id.kind = "auto" /\ resp'.reason = ""
                   ELSE IF c.explicit
                   THEN resp'.allow /\ resp'.record_id.kind = "exp" /\ resp'.reason = ""
                   ELSE /\ ~resp'.allow /\ resp'.record_id.kind = ""
                        /\ resp'.reason = "explicit_required"]_vars

\* /consent has just answered auto for two requested scopes that the stored delegation
\* (written from dc-2) both contains
C23_Witness ==
    /\ resp.svc = "adp" /\ resp.ep = "/consent" /\ resp.allow
    /\ resp.record_id.kind = "auto" /\ ~resp.req.explicit
    /\ resp.req.scopes = << <<"payments:charge">>, <<"tickets:read">> >>
    /\ \E r \in delegations : r.toolId = "payments.charge" /\ r.jws = "dc-2"

\* the answer of the ADP to the /consent request POST /session/start sends for session o
StartConsent(o) ==
    ConsentDecision([subject |-> "user-123", agentId |-> "agent-demo", toolId |-> o.toolId,
                     scopes |-> o.scopesList, explicit |-> FALSE])

\* the gateway page /consent?sid=<sid>
ConsentPageUrl(s) == [page |-> "/consent", sid |-> s]

\* C27: POST /session/start returns an authorize_url pointing at the AS authorization
\* endpoint only when ADP /consent (explicit = false) answered allow = true; when it
\* answered allow = false the authorize_url is the gateway page /consent?sid=<sid>.
C27_AuthorizeUrlFollowsConsent ==
    [][(start.pc = "consenting" /\ resp'.svc = "gw" /\ resp'.ep = "/session/start"
          /\ resp'.status = 200)
       => LET o == sess[start.sid]
          IN /\ resp'.authorize_url = AuthorizeUrl(o) => StartConsent(o).allow
             /\ ~StartConsent(o).allow => resp'.authorize_url = ConsentPageUrl(start.sid)]_vars

\* POST /session/start has just answered with the authorize URL of an echo:read session
EchoStarted ==
    /\ resp.svc = "gw" /\ resp.ep = "/session/start" /\ resp.status = 200
    /\ sess[resp.sid].scope = <<"echo:read">>

\* GET /mcp/echo?msg=hi has just been answered with the result of the RS
EchoAnswered ==
    /\ resp.svc = "gw" /\ resp.ep = "echo" /\ resp.status = 200
    /\ resp.body.strs = {"hi", "user-123", "echo:read"}

\* C24: after POST /session/start for echo:read, when the user follows the authorize URL
\* and every service keeps answering, the session eventually becomes ready, then
\* /session/status eventually reports ready = true, then GET /mcp/echo?msg=hi is
\* eventually answered with the RS result {ok, echo: hi, user: user-123, scope: echo:read}.
C24_HappyPathCompletes ==
    /\ EchoStarted ~> (\E s \in SESSION : sess[s].ready)
    /\ (\E s \in SESSION : sess[s].ready)
          ~> (resp.svc = "gw" /\ resp.ep = "/session/status" /\ resp.ready)
    /\ (resp.svc = "gw" /\ resp.ep = "/session/status" /\ resp.ready) ~> EchoAnswered

\* the echo was answered through the session that the callback made ready
C24_Witness ==
    /\ EchoAnswered
    /\ sess[resp.sid].ready /\ sess[resp.sid].used /\ sess[resp.sid].toolId = "mcp.echo"

\* the merchant check of /mcp/pay passes
PassesMerchant(o, req) ==
    ~(/\ o.obligations.has_allowlist /\ Len(o.obligations.merchant_allowlist) > 0
      /\ (req.merchant_id = "" \/ req.merchant_id \notin Range(o.obligations.merchant_allowlist)))

\* C25: /mcp/pay evaluates the obligations of the selected session in the order binding,
\* amount, merchant, ttl and stops at the first violation: the response is the one of the
\* first failing check, later checks have no effect (the session is left as it was unless
\* the ttl check is the one that fails), and the request is forwarded only after all four
\* checks have passed.
C25_ChecksInOrderFirstViolationWins ==
    [][\A req \in OrderRequests :
         (McpPay(req) /\ PaySession # 0 /\ req.orderId # "")
         => LET s == PaySession
                o == sess[s]
                refused(status, error, detail) ==
                    /\ resp'.status = status /\ resp'.error = error /\ resp'.detail = detail
                    /\ mcp' = mcp
            IN IF ~PassesBinding(o, req)
               THEN refused(403, "obligation_violation", "orderId mismatch") /\ sess' = sess
               ELSE IF ~PassesCap(o, req)
               THEN refused(403, "obligation_violation", "amount exceeds max") /\ sess' = sess
               ELSE IF ~PassesMerchant(o, req)
               THEN refused(403, "obligation_violation", "merchant not allowed") /\ sess' = sess
               ELSE IF TtlElapsed(s, now)
               THEN refused(401, "session_obligation_ttl_expired", "")
               ELSE /\ resp' = NoResp
                    /\ \E k \in 1..MaxMcp :
                          /\ mcp[k].pc = "idle" /\ mcp'[k].pc = "forwarded"
                          /\ mcp'[k].req = req /\ mcp'[k].sid = s]_vars

\* a request over the cap and for another merchant was just refused for its amount after
\* the ttl had run out, and the session still holds its token
C25_Witness ==
    /\ resp.svc = "gw" /\ resp.ep = "pay" /\ resp.status = 403
    /\ resp.detail = "amount exceeds max"
    /\ TtlElapsed(resp.sid, now)
    /\ sess[resp.sid].ready /\ sess[resp.sid].access_token # NoToken

\* C26: a /mcp/pay request rejected with 403 obligation_violation or 400 invalid_request
\* leaves every session unchanged; across all gateway handlers a session loses its
\* access_token or has ready reset to false only when /mcp/pay finds its obligation ttl
\* expired or when a tool handler receives 401 or 403 from upstream for it.
C26_TokenClearedOnlyOnTtlOrUpstreamRefusal ==
    [][/\ (/\ resp'.svc = "gw" /\ resp'.ep = "pay" /\ resp'.status \in {400, 403}
           /\ \E req \in PayInputs : McpPay(req))
          => sess' = sess /\ SESSION' = SESSION
       /\ \A s \in Sids :
            (\/ sess[s].ready /\ ~sess'[s].ready
             \/ sess[s].access_token # NoToken /\ sess'[s].access_token = NoToken)
            => \/ /\ resp'.svc = "gw" /\ resp'.ep = "pay" /\ resp'.status = 401
                  /\ resp'.error = "session_obligation_ttl_expired" /\ resp'.sid = s
                  /\ TtlElapsed(s, now)
               \/ \E k \in 1..MaxMcp :
                     /\ mcp[k].pc = "answered" /\ mcp[k].sid = s
                     /\ mcp[k].up.status \in {401, 403} /\ mcp'[k].pc = "idle"
                     /\ resp'.status = 401 /\ resp'.error = "login_required"]_vars

\* a payment for another merchant was just refused with 403 while the session keeps its
\* token and stays ready
C26_Witness ==
    /\ resp.svc = "gw" /\ resp.ep = "pay" /\ resp.status = 403
    /\ resp.detail = "merchant not allowed"
    /\ resp.sid \in SESSION
    /\ sess[resp.sid].ready /\ sess[resp.sid].access_token # NoToken

\* C28: a callback that is refused (error parameter, malformed state, bad signature or
\* payload, unknown sid, aud or scope mismatch) or whose token exchange gives no token
\* leaves every session unchanged; a session that no callback has finalized is not ready,
\* holds no token, keeps its code_verifier, and a callback with its own state still
\* passes the checks.
C28_FailedCallbackChangesNothing ==
    [][/\ (resp'.svc = "gw" /\ resp'.ep = "/oauth/callback" /\ resp'.status # 200)
          => sess' = sess /\ SESSION' = SESSION
       /\ \A s \in SESSION :
            ~sess[s].used
            => /\ ~sess[s].ready /\ sess[s].access_token = NoToken
               /\ sess[s].code_verifier # 0
               /\ CallbackCheck(sess[s].state, "").status = 0]_vars

\* the token exchange of a callback has just failed while the session is still open and
\* the AS holds a code for it
C28_Witness ==
    /\ resp.svc = "gw" /\ resp.ep = "/oauth/callback" /\ resp.status = 502
    /\ \E s \in SESSION :
          /\ ~sess[s].used /\ ~sess[s].ready /\ sess[s].code_verifier # 0
          /\ \E c \in Codes : AUTHZ[c].present /\ AUTHZ[c].state = sess[s].state

\* C29: a callback whose token exchange succeeds stores the access_token and the
\* refresh_token of the token response in the session, sets expires_at to the time of
\* receipt plus expires_in (900 s when the AS gives none), erases the code_verifier and
\* sets used and ready; a session with used = true never has a code_verifier.
C29_FinalizeStoresTokenAndErasesVerifier ==
    [][/\ \A k \in 1..MaxCb :
            (/\ resp'.svc = "gw" /\ resp'.ep = "/oauth/callback" /\ resp'.status = 200
             /\ cb[k].pc = "responded" /\ cb'[k].pc = "idle")
            => LET j == cb[k].tokres
                   o == sess'[cb[k].sid]
               IN /\ j.ok /\ j.access_token # NoToken
                  /\ o.access_token = j.access_token /\ o.refresh_token = j.refresh_token
                  /\ o.expires_at = now + 1000 * (IF j.expires_in # -1 THEN j.expires_in
                                                                       ELSE 900)
                  /\ o.code_verifier = 0 /\ o.used /\ o.ready
       /\ \A s \in Sids : sess'[s].used => sess'[s].code_verifier = 0]_vars

\* the callback has just finalized a session with the token the AS minted for it
C29_Witness ==
    /\ resp.svc = "gw" /\ resp.ep = "/oauth/callback" /\ resp.status = 200
    /\ \E s \in SESSION :
          /\ sess[s].used /\ sess[s].ready /\ sess[s].code_verifier = 0
          /\ sess[s].access_token # NoToken /\ sess[s].access_token.aud = sess[s].audience
          /\ sess[s].expires_at = now + 900 * 1000

\* the step is the finalization of session s by a callback whose token exchange succeeded:
\* ready, the token of that exchange and its expiry are written together
FinalizedBy(s) ==
    \E k \in 1..MaxCb :
       /\ cb[k].pc = "responded" /\ cb'[k].pc = "idle" /\ cb[k].sid = s
       /\ cb[k].tokres.ok /\ cb[k].tokres.access_token # NoToken
       /\ sess'[s].ready /\ sess'[s].used
       /\ sess'[s].access_token = cb[k].tokres.access_token
       /\ sess'[s].obtained_at = now
       /\ sess'[s].expires_at = now + sess'[s].expires_in * 1000

\* the step withdraws the session: ready and the token go together
Withdrawn(s) == ~sess'[s].ready /\ sess'[s].access_token = NoToken

\* C30: a tool handler forwards only for a session that is ready and carries the
\* access_token, expires_at and obligations of one finalization, and it sends that
\* token; the ready flag, the token and the expiry of a session change only together,
\* in a finalization or a withdrawal, so no interleaving of callbacks and tool
\* requests shows a ready session without its token or with the token of another
\* finalization.
C30_HandlerSeesOneFinalization ==
    [][/\ \A k \in 1..MaxMcp :
            (mcp[k].pc = "idle" /\ mcp'[k].pc = "forwarded")
            => LET s == mcp'[k].sid
                   o == sess[s]
               IN /\ s \in SESSION /\ o.ready /\ o.used
                  /\ o.access_token # NoToken /\ mcp'[k].bearer = o.access_token
                  /\ o.expires_at = o.obtained_at + o.expires_in * 1000
                  /\ sess'[s] = o
       /\ \A s \in SESSION :
            /\ sess'[s].ready => sess'[s].access_token # NoToken
            /\ sess'[s].obligations = sess[s].obligations
            /\ (<<sess'[s].ready, sess'[s].access_token, sess'[s].expires_at>>
                  # <<sess[s].ready, sess[s].access_token, sess[s].expires_at>>)
               => (FinalizedBy(s) \/ Withdrawn(s))]_vars

\* a tool request was forwarded with the token of the first finalization while a second
\* callback of the same session holds a different token it is about to write
C30_Witness ==
    \E k \in 1..MaxMcp, j \in 1..MaxCb :
       /\ mcp[k].pc = "forwarded" /\ mcp[k].sid = cb[j].sid
       /\ sess[mcp[k].sid].ready /\ mcp[k].bearer = sess[mcp[k].sid].access_token
       /\ cb[j].pc = "responded" /\ cb[j].tokres.ok
       /\ cb[j].tokres.access_token # mcp[k].bearer

\* C31: for any sid at most one callback performs a successful token exchange and
\* stores an access token in the session, also when two callbacks with the same state
\* and different codes interleave across the await of the token exchange: a
\* finalization happens only in a session not yet used (used is never reset).
C31_AtMostOneFinalizationPerSession ==
    [][\A s \in SESSION : FinalizedBy(s) => ~sess[s].used]_vars

\* the conditions under which /authorize may issue a code
AuthorizeAcceptable(q) ==
    /\ q.response_type = "code"
    /\ q.client_id \in DOMAIN CLIENTS
    /\ q.redirect_uri \in CLIENTS[q.client_id]
    /\ q.code_challenge # NoChallenge /\ q.code_challenge_method = "S256"

\* C32: /authorize stores an AuthorizationRequest and redirects with a fresh code only
\* when response_type is code, client_id is registered, redirect_uri is one of that
\* client's registered URIs and an S256 code_challenge is present; in every other case
\* it answers 400, issues no code and leaves AUTHZ unchanged.
C32_AuthorizeOnlyForRegisteredClientAndPkce ==
    [][\A q \in RegisterQueries :
          (resp'.ep = "authorize" /\ AuthorizeGet(q))
          => IF AuthorizeAcceptable(q)
             THEN /\ resp'.status = 302 /\ resp'.code = nextCode
                  /\ AUTHZ[nextCode] = NoEntry /\ AUTHZ'[nextCode].present
                  /\ AUTHZ'[nextCode].client_id = q.client_id
                  /\ AUTHZ'[nextCode].redirect_uri = q.redirect_uri
                  /\ AUTHZ'[nextCode].code_challenge = q.code_challenge
                  /\ \A c \in Codes \ {nextCode} : AUTHZ'[c] = AUTHZ[c]
             ELSE /\ resp'.status = 400 /\ resp'.code = NoCode
                  /\ AUTHZ' = AUTHZ /\ nextCode' = nextCode]_vars

\* a client registered at run time obtained a code for its own redirect URI
C32_Witness ==
    /\ resp.svc = "as" /\ resp.ep = "authorize" /\ resp.status = 302
    /\ AUTHZ[resp.code].present /\ AUTHZ[resp.code].client_id = "client-01"
    /\ AUTHZ[resp.code].redirect_uri = "http://evil.example/cb"
    /\ "http://evil.example/cb" \in CLIENTS["client-01"]

\* the conditions under which /token may mint a token for body b
TokenAcceptable(b) ==
    /\ b.grant_type = "authorization_code"
    /\ b.code \in Codes /\ AUTHZ[b.code].present
    /\ b.client_id = AUTHZ[b.code].client_id
    /\ b.redirect_uri = AUTHZ[b.code].redirect_uri
    /\ Sha256(b.code_verifier) = AUTHZ[b.code].code_challenge

\* C33: /token mints a token for a code only if grant_type is authorization_code, the
\* code is in AUTHZ, client_id and redirect_uri equal those of the stored
\* AuthorizationRequest and SHA-256(code_verifier) equals the stored code_challenge; the
\* minted token carries the scope of the stored request; a request failing a check is
\* answered 400 and gets no token.
C33_TokenMintedOnlyForMatchingRequest ==
    [][/\ \A k \in 1..MaxTok :
            (tok[k].pc = "idle" /\ tok'[k].pc = "signing")
            => /\ TokenAcceptable(tok'[k].b)
               /\ tok'[k].accessToken.scope = AUTHZ[tok'[k].b.code].scope
       /\ (resp'.ep = "token" /\ resp'.status = 200)
            => \E k \in 1..MaxTok :
                  /\ tok[k].pc = "signing" /\ tok'[k].pc = "idle"
                  /\ resp'.access_token = tok[k].accessToken
                  /\ resp'.access_token.scope = tok[k].entry.scope
       /\ \A b \in ASTokenBodies :
            (/\ resp'.ep = "token" /\ resp'.code = b.code /\ resp'.grant_type = b.grant_type
             /\ ~TokenAcceptable(b) /\ TokenPost(b))
            => /\ resp'.status = 400 /\ resp'.access_token = NoToken
               /\ tok' = tok /\ AUTHZ' = AUTHZ /\ mintCount' = mintCount]_vars

\* a token was minted with the scope of the stored request and its code was consumed
C33_Witness ==
    /\ resp.svc = "as" /\ resp.ep = "token" /\ resp.status = 200
    /\ resp.access_token.scope = <<"payments:charge">>
    /\ mintCount[resp.code] = 1 /\ ~AUTHZ[resp.code].present

\* C34: the RS executes /mcp/echo, /tickets and /orders/:id/pay only for a bearer token
\* that introspects as active, whose aud is the expected audience and whose scope
\* contains the required scope; a missing, inactive or wrong-audience token gets 401
\* with a WWW-Authenticate header carrying resource_metadata, and a token lacking the
\* scope gets 403 insufficient_scope.
C34_RSExecutesOnlyForValidToken ==
    [][\A tool \in {"echo", "tickets", "pay"}, bearer \in RSBearers, req \in RSRequests :
          (resp'.svc = "rs" /\ resp'.ep = tool /\ RSRequest(tool, bearer, req))
          => LET data == Introspect(bearer) IN
             IF bearer = NoToken \/ ~data.active \/ data.aud # EXPECTED_AUD
             THEN /\ resp'.status = 401 /\ resp'.www.resource_metadata # ""
                  /\ ORDERS' = ORDERS
             ELSE IF ~(Range(RequiredScope(tool)) \subseteq Range(bearer.scope))
             THEN /\ resp'.status = 403 /\ resp'.error = "insufficient_scope"
                  /\ ORDERS' = ORDERS
             ELSE resp'.status \notin {401, 403}]_vars

\* an active token with the required scope but minted for another audience was refused
C34_Witness ==
    /\ resp.svc = "rs" /\ resp.ep = "pay" /\ resp.status = 401
    /\ resp.error = "bad_audience" /\ resp.www.resource_metadata # ""
    /\ resp.www.realm = EXPECTED_AUD
    /\ ORDERS["order-1001"].status = "created"

\* C35: when ensureSession({toolId, scope}) returns, the gateway holds a ready session
\* whose scope list contains the requested scope, and the tool call that follows is not
\* answered 401 login_required, also when a ready session for another scope exists
\* while the agent polls /session/status.
C35_EnsuredSessionServesTheToolCall ==
    [][PollSaysReady =>
          /\ \E s \in listReadySessions :
                Range(sess[nextSid - 1].scopesList) \subseteq Range(sess[s].scopesList)
          /\ AgentCall => ~(resp'.status = 401 /\ resp'.error = "login_required")]_vars

\* C36: every scope in a session's scope list, hence every scope the gateway requests
\* from the AS and every scope the session can serve, was requested by the agent in the
\* POST /session/start that created the session.
C36_SessionScopesWereRequested ==
    [][(start.pc = "evaluated" /\ start'.pc = "consenting")
          => LET o == sess'[start'.sid] IN
             /\ Range(JoinWords(o.scopesList)) \subseteq Range(start.scope)
             /\ Range(AuthorizeUrl(o).scope) \subseteq Range(start.scope)]_vars

\* C37: for every ready session the stored access token was issued by the AS for an
\* authorization request whose scope is the session's scope string and whose
\* code_challenge is the session's, also when another party sends /authorize requests
\* with the session's state and code_challenge but a different scope and lets the code
\* reach the gateway callback.
C37_TokenIssuedForTheSessionsRequest ==
    [][/\ \A k \in 1..MaxTok :
            (tok[k].pc = "signing" /\ tok'[k].pc = "idle" /\ tok[k].replyTo # 0)
            => LET o == sess[cb[tok[k].replyTo].sid] IN
               /\ tok[k].entry.scope = o.scope
               /\ tok[k].entry.code_challenge = o.code_challenge
       /\ \A s \in SESSION :
            sess'[s].ready => sess'[s].access_token.scope = sess'[s].scope]_vars

\* C38: whenever POST /session/start responds with an error (403 denied_by_policy, 500
\* start_failed after a failure of discovery, of ADP /evaluate or of ADP /consent), the
\* session table is as it was before the request: the request inserted no session.
C38_FailedStartInsertsNoSession ==
    [][(resp'.svc = "gw" /\ resp'.ep = "/session/start" /\ resp'.status # 200)
          => /\ start.sid = 0
             /\ SESSION' = SESSION /\ sess' = sess]_vars

\* C39: no order whose amount stored at the RS exceeds the max_amount_cents obligation
\* of the session that served the request is moved to status paid by a POST /mcp/pay:
\* the cap bounds the amount charged, not only the amount the agent states.
C39_PaidOrderIsWithinTheCap ==
    [][\A k \in 1..MaxMcp :
          (/\ mcp[k].pc = "forwarded" /\ mcp'[k].pc = "answered" /\ mcp[k].tool = "pay"
           /\ mcp[k].req.orderId \in DOMAIN ORDERS
           /\ ORDERS[mcp[k].req.orderId].status # "paid"
           /\ ORDERS'[mcp[k].req.orderId].status = "paid")
          => LET ob == sess[mcp[k].sid].obligations IN
             ob.max_amount_cents # -1
                => ORDERS[mcp[k].req.orderId].amount_cents <= ob.max_amount_cents]_vars

\* what POST /evaluate answers to e in the current state
EvaluateAnswer(e) ==
    Evaluate(ParsedRow(selectValid(IF e.subject = "" THEN "user-123" ELSE e.subject,
                                   e.agentId, e.toolId)),
             e.requested_scopes, e.context)

\* the answer to e is allow=false because the context breaches the stored delegation's
\* max_amount_cents or merchants constraint
DeniedByConstraint(e) ==
    LET row == ParsedRow(selectValid(IF e.subject = "" THEN "user-123" ELSE e.subject,
                                     e.agentId, e.toolId))
    IN row.present /\ ConstraintsDeny(row, e.context) /\ ~EvaluateAnswer(e).allow

\* C40: for a fixed /evaluate input and an unchanged delegations table, an answer
\* allow=false caused by the delegation's max_amount_cents or merchants constraint stays
\* allow=false when only time passes, the delegation reaching not_after included.
C40_ConstraintDenyOutlastsTime ==
    [][(now' # now /\ delegations' = delegations)
          => \A e \in EvaluateInputs : DeniedByConstraint(e) => ~EvaluateAnswer(e)'.allow]_vars

====
